---- MODULE Spec2Model ----
(***************************************************************************)
(* A model of the CCYOE simulation engine (CCYOEBacktester), its policy    *)
(* configuration (OptimizationConfig), the metrics library                 *)
(* (PerformanceMetrics) and the optimization wrapper (YieldOptimizer).     *)
(*                                                                         *)
(* Numbers.  The program computes in IEEE doubles; the model computes in   *)
(* fixed point, every quantity an integer count of a named unit:           *)
(*   allocation weights        1/WeightScale                               *)
(*   yields, thresholds, costs basis points (integers)                     *)
(*   redistribution amounts    1/AmountScale of a basis point              *)
(*   balances, portfolio value 1/BalScale of a million USD                 *)
(*   returns, ratios           1/RetScale                                  *)
(* FInf and FNaN stand for the doubles inf and nan.                        *)
(* Dates are counted in ticks, TicksPerDay ticks to a calendar day.        *)
(***************************************************************************)
EXTENDS Integers, Sequences, FiniteSets, TLC

WeightScale == 1000000000
AmountScale == 1000000
BalScale == 1000000
RetScale == 1000000
CapScale == 1000000
TicksPerDay == 2

FInf == 2147483647
FNaN == -2147483647 - 1
NoDate == -1

Assets == {"cmBTC", "cmUSD", "cmBRL"}

\* a dict keyed by the three assets
AssetMap(F(_)) == [cmBTC |-> F("cmBTC"), cmUSD |-> F("cmUSD"), cmBRL |-> F("cmBRL")]

(***************************************************************************)
(* Fixed-point helpers.                                                    *)
(***************************************************************************)
Abs(x) == IF x < 0 THEN -x ELSE x

Max2(a, b) == IF a >= b THEN a ELSE b

Min2(a, b) == IF a <= b THEN a ELSE b

IsFinite(x) == x # FInf /\ x # FNaN /\ x # -FInf

\* <<floor(a*b/c), (a*b) mod c>> for a, b >= 0 and c > 0 without an
\* intermediate beyond 32 bits: the product itself when it fits, else digit
\* by digit of a (radix 16 when 16c + 15b fits, else radix 2).
RECURSIVE MulDivQR(_, _, _)
MulDivQR(a, b, c) ==
    IF a = 0 \/ b = 0 THEN <<0, 0>>
    ELSE IF a <= 2147483647 \div b THEN <<(a * b) \div c, (a * b) % c>>
    ELSE LET R == IF c <= 60000000 /\ b <= 60000000 THEN 16 ELSE 2
             h == MulDivQR(a \div R, b, c)
             t == R * h[2] + (a % R) * b
         IN  <<R * h[1] + (t \div c), t % c>>

\* a*b/c of the doubles, rounded toward zero.
MulDiv(a, b, c) ==
    IF (a < 0) = (b < 0) THEN MulDivQR(Abs(a), Abs(b), c)[1]
    ELSE -(MulDivQR(Abs(a), Abs(b), c)[1])

\* Integer square root (floor), by bisection on [0, 46341).
RECURSIVE ISqrtGo(_, _, _)
ISqrtGo(n, lo, hi) ==
    IF hi - lo <= 1 THEN lo
    ELSE LET mid == (lo + hi) \div 2
         IN  IF mid * mid <= n THEN ISqrtGo(n, mid, hi) ELSE ISqrtGo(n, lo, mid)

ISqrt(n) == IF n <= 0 THEN 0 ELSE ISqrtGo(n, 0, 46341)

(***************************************************************************)
(* Doubles in units of 1/RetScale.  A double whose magnitude does not fit  *)
(* the fixed-point range is represented by FInf (the range of the model's  *)
(* doubles is FMax, as the range of an IEEE double is about 1.8e308).      *)
(***************************************************************************)
FMax == 2000

\* x * y
FMul(x, y) ==
    IF x = FNaN \/ y = FNaN THEN FNaN
    ELSE IF ~IsFinite(x) \/ ~IsFinite(y)
         THEN IF x = 0 \/ y = 0 THEN FNaN
              ELSE IF (x < 0) = (y < 0) THEN FInf ELSE -FInf
    ELSE IF (Abs(x) \div RetScale + 1) * (Abs(y) \div RetScale + 1) >= FMax
         THEN IF (x < 0) = (y < 0) THEN FInf ELSE -FInf
    ELSE MulDiv(x, y, RetScale)

\* x / y of numpy doubles: division by zero gives inf or nan, never raises
FDiv(x, y) ==
    IF x = FNaN \/ y = FNaN THEN FNaN
    ELSE IF y = 0 THEN (IF x = 0 THEN FNaN ELSE IF x > 0 THEN FInf ELSE -FInf)
    ELSE IF ~IsFinite(y) THEN (IF IsFinite(x) THEN 0 ELSE FNaN)
    ELSE IF ~IsFinite(x) THEN (IF (x < 0) = (y < 0) THEN FInf ELSE -FInf)
    ELSE IF Abs(x) \div Abs(y) >= FMax
         THEN IF (x < 0) = (y < 0) THEN FInf ELSE -FInf
    ELSE LET big == Abs(y) > 1000 * RetScale
             xx == IF big THEN Abs(x) \div 4 ELSE Abs(x)
             yy == IF big THEN Abs(y) \div 4 ELSE Abs(y)
             q == MulDivQR(xx, RetScale, yy)[1]
         IN  IF (x < 0) = (y < 0) THEN q ELSE -q

\* x - y and x + y
FSub(x, y) ==
    IF x = FNaN \/ y = FNaN THEN FNaN
    ELSE IF ~IsFinite(x) THEN (IF x = y THEN FNaN ELSE x)
    ELSE IF ~IsFinite(y) THEN -y
    ELSE x - y

FAdd(x, y) == FSub(x, IF y = FNaN THEN FNaN ELSE -y)

\* comparisons of doubles: every comparison with nan is false
FGt(x, y) == x # FNaN /\ y # FNaN /\ x > y

FLt(x, y) == x # FNaN /\ y # FNaN /\ x < y

FAbs(x) == IF x = FNaN THEN FNaN ELSE Abs(x)

\* x ** k for an integer k >= 0, by repeated squaring
RECURSIVE FPowInt(_, _)
FPowInt(x, k) ==
    IF k = 0 THEN RetScale
    ELSE LET h == FPowInt(x, k \div 2)
             sq == FMul(h, h)
         IN  IF k % 2 = 1 THEN FMul(sq, x) ELSE sq

\* the largest r in [lo, hi) with r ** n <= x (the n-th root of x)
RECURSIVE FRootGo(_, _, _, _)
FRootGo(x, n, lo, hi) ==
    IF hi - lo <= 1 THEN lo
    ELSE LET mid == (lo + hi) \div 2
             p == FPowInt(mid, n)
         IN  IF IsFinite(p) /\ p <= x THEN FRootGo(x, n, mid, hi)
             ELSE FRootGo(x, n, lo, mid)

\* x ** (num / den) for x >= 0
FPow(x, num, den) ==
    IF x = FNaN THEN FNaN
    ELSE IF x = FInf THEN FInf
    ELSE IF num % den = 0 THEN FPowInt(x, num \div den)
    ELSE FPowInt(FRootGo(x, den, 0, FMax * RetScale), num)

(***************************************************************************)
(* OptimizationConfig (backtester.py).                                     *)
(***************************************************************************)
DefaultTargetYields == AssetMap(LAMBDA a:
    IF a = "cmBTC" THEN 500 ELSE IF a = "cmUSD" THEN 1400 ELSE 2000)

\* supply caps, in 1/CapScale of the program's unit (millions of USD)
DefaultSupplyCaps == AssetMap(LAMBDA a:
    IF a = "cmBTC" THEN 20 * CapScale
    ELSE IF a = "cmUSD" THEN 50 * CapScale ELSE 1000 * CapScale)

DefaultInitialPortfolio == AssetMap(LAMBDA a:
    IF a = "cmBTC" THEN 10 * BalScale
    ELSE IF a = "cmUSD" THEN 25 * BalScale ELSE 40 * BalScale)

\* variant: exact comparison
np_isclose_exact(a, b) == a = b

\* np.isclose(a, b) with its default rtol = 1e-05 and atol = 1e-08,
\* a and b in units of 1/WeightScale
np_isclose(a, b) ==
    Abs(a - b) <= (WeightScale \div 100000000) + (Abs(b) \div 100000)

total_allocation(c) ==
    c.under_supplied_allocation + c.strategic_growth_allocation
        + c.proportional_allocation + c.treasury_allocation

\* the fields of the dataclass before __post_init__ runs
ConfigFields(us, sg, pr, tr, thr, minint, caps, tc) ==
    [under_supplied_allocation |-> us,
     strategic_growth_allocation |-> sg,
     proportional_allocation |-> pr,
     treasury_allocation |-> tr,
     rebalance_threshold |-> thr,
     min_rebalance_interval |-> minint,
     max_rebalance_frequency |-> 7,
     target_yields |-> DefaultTargetYields,
     supply_caps |-> caps,
     transaction_cost |-> tc,
     gas_cost_usd |-> 50]

\* __post_init__: TRUE when the constructor raises ValueError
post_init_raises(c) == ~np_isclose(total_allocation(c), WeightScale)

(***************************************************************************)
(* CCYOEBacktester: the per-period operations.                             *)
(***************************************************************************)
SumAssets(f) == f["cmBTC"] + f["cmUSD"] + f["cmBRL"]

\* Timedelta.days of (later - earlier)
TimedeltaDays(later, earlier) == (later - earlier) \div TicksPerDay

\* _check_rebalance_conditions
excess_yields_of(c, current_yields) ==
    AssetMap(LAMBDA a: Max2(0, current_yields[a] - c.target_yields[a]))

\* variant: the time interval condition is dropped
check_rebalance_conditions_no_interval(c, current_yields, last_rebalance_date, current_date) ==
    LET excess_yields == excess_yields_of(c, current_yields)
    IN  [needed |-> SumAssets(excess_yields) >= c.rebalance_threshold,
         excess_yields |-> excess_yields]

\* variant: the threshold must be exceeded strictly
check_rebalance_conditions_strict(c, current_yields, last_rebalance_date, current_date) ==
    LET excess_yields == excess_yields_of(c, current_yields)
        time_interval_ok ==
            IF last_rebalance_date # NoDate
            THEN TimedeltaDays(current_date, last_rebalance_date)
                     >= c.min_rebalance_interval
            ELSE TRUE
    IN  [needed |-> SumAssets(excess_yields) > c.rebalance_threshold /\ time_interval_ok,
         excess_yields |-> excess_yields]

check_rebalance_conditions(c, current_yields, last_rebalance_date, current_date) ==
    LET excess_yields == excess_yields_of(c, current_yields)
        total_excess == SumAssets(excess_yields)
        threshold_met == total_excess >= c.rebalance_threshold
        time_interval_ok ==
            IF last_rebalance_date # NoDate
            THEN TimedeltaDays(current_date, last_rebalance_date)
                     >= c.min_rebalance_interval
            ELSE TRUE
    IN  [needed |-> threshold_met /\ time_interval_ok,
         excess_yields |-> excess_yields]

\* total_excess (bp) times a weight, in 1/AmountScale bp
BucketAmount(total_excess, w) ==
    MulDiv(total_excess, w, WeightScale \div AmountScale)

\* utilization = value / supply_cap / 1e6 > 0.8, with value in 1/BalScale and
\* the cap in 1/CapScale (CapScale = 1e6 cancels the program's 1e6):
\* value / BalScale / cap > 0.8, that is value > (0.8 * BalScale) * cap,
\* written without the product so that large caps do not overflow
HighUtilization(value, cap) ==
    value >= 1 /\ ((value - 1) \div ((8 * BalScale) \div 10)) >= cap

\* 1. the under-supplied allocation asset a receives
under_supplied_share(c, a, total_excess) ==
    LET under_supplied_amount == BucketAmount(total_excess, c.under_supplied_allocation)
    IN  IF a \in {"cmBTC", "cmUSD"} /\ under_supplied_amount > 0
        THEN under_supplied_amount \div 2 ELSE 0

\* 2. the strategic growth allocation asset a receives
strategic_share(c, portfolio, a, total_excess) ==
    LET strategic_amount == BucketAmount(total_excess, c.strategic_growth_allocation)
    IN  IF HighUtilization(portfolio[a], c.supply_caps[a])
        THEN MulDiv(strategic_amount, 1, 3) ELSE 0

\* 3. the proportional allocation asset a receives
proportional_share(c, portfolio, a, total_excess) ==
    LET proportional_amount == BucketAmount(total_excess, c.proportional_allocation)
        total_portfolio_value == SumAssets(portfolio)
    IN  MulDiv(proportional_amount, portfolio[a], total_portfolio_value)

\* _calculate_yield_redistribution
calculate_yield_redistribution(c, portfolio, total_excess) ==
    AssetMap(LAMBDA a: under_supplied_share(c, a, total_excess)
                       + strategic_share(c, portfolio, a, total_excess)
                       + proportional_share(c, portfolio, a, total_excess))

\* treasury_amount of _calculate_yield_redistribution (never distributed)
treasury_amount_of(c, total_excess) == BucketAmount(total_excess, c.treasury_allocation)

EmptyEvent ==
    [has_fields |-> FALSE, date |-> NoDate, total_excess_yield |-> 0,
     redistribution |-> AssetMap(LAMBDA a: 0),
     portfolio_impact |-> AssetMap(LAMBDA a: 0),
     transaction_cost |-> 0, gas_cost |-> 0]

\* the loop of _execute_rebalancing over the redistribution, given the
\* value increases portfolio[asset] * boost / 10000 and their costs
apply_redistribution(c, portfolio, date, total_excess, redistribution, value_increase, transaction_cost) ==
    [portfolio |-> AssetMap(LAMBDA a:
         IF redistribution[a] > 0
         THEN portfolio[a] + value_increase[a] - transaction_cost[a]
         ELSE portfolio[a]),
     event |-> [has_fields |-> TRUE, date |-> date,
                total_excess_yield |-> total_excess,
                redistribution |-> redistribution,
                portfolio_impact |-> value_increase,
                transaction_cost |-> SumAssets(transaction_cost),
                gas_cost |-> c.gas_cost_usd]]

\* value_increase = portfolio[asset] * (boost / 10000), for boost > 0
value_increase_of(portfolio, redistribution) ==
    AssetMap(LAMBDA a:
        IF redistribution[a] > 0
        THEN MulDiv(redistribution[a], portfolio[a], 1000 * AmountScale) \div 10
        ELSE 0)

\* variant: no transaction cost is charged
transaction_cost_waived(c, value_increase) == AssetMap(LAMBDA a: 0)

\* transaction_cost = value_increase * self.config.transaction_cost / 10000
transaction_cost_of(c, value_increase) ==
    AssetMap(LAMBDA a: MulDiv(value_increase[a], c.transaction_cost, 10000))

costed_redistribution(c, portfolio, date, total_excess, redistribution, value_increase) ==
    apply_redistribution(c, portfolio, date, total_excess, redistribution,
                         value_increase, transaction_cost_of(c, value_increase))

valued_redistribution(c, portfolio, date, total_excess, redistribution) ==
    costed_redistribution(c, portfolio, date, total_excess, redistribution,
                          value_increase_of(portfolio, redistribution))

\* _execute_rebalancing: the new portfolio and the returned event
execute_rebalancing(c, portfolio, excess_yields, date) ==
    IF SumAssets(excess_yields) <= 0
    THEN [portfolio |-> portfolio, event |-> EmptyEvent]
    ELSE valued_redistribution(c, portfolio, date, SumAssets(excess_yields),
             calculate_yield_redistribution(c, portfolio, SumAssets(excess_yields)))

\* variant: the annual rate is applied every period
compound_annual_rate(balance, yield_bp) == balance + MulDiv(yield_bp, balance, 10000)

\* portfolio[asset] *= 1 + yield / 10000 / 365
compound(balance, yield_bp) == balance + MulDiv(yield_bp, balance, 3650000)

\* _calculate_portfolio_value
calculate_portfolio_value(portfolio) == SumAssets(portfolio)

\* _filter_data: the rows with start <= date <= end, in order
filter_data(rows, start, end) ==
    SelectSeq(rows, LAMBDA r: r.date >= start /\ r.date <= end)

(***************************************************************************)
(* CCYOEBacktester._calculate_results.                                     *)
(***************************************************************************)
RECURSIVE SumSeq(_)
SumSeq(q) == IF q = <<>> THEN 0 ELSE q[1] + SumSeq(Tail(q))

RECURSIVE MaxAbsSeq(_)
MaxAbsSeq(q) == IF q = <<>> THEN 0 ELSE Max2(Abs(q[1]), MaxAbsSeq(Tail(q)))

\* Series.pct_change() of one step: cur / prev - 1
PctChange(prev, cur) ==
    IF prev = 0 THEN (IF cur = 0 THEN FNaN ELSE FInf)
    ELSE MulDiv(cur - prev, RetScale, prev)

\* portfolio_value.pct_change().dropna()
daily_returns_of(values) ==
    SelectSeq([i \in 1..(Len(values) - 1) |-> PctChange(values[i], values[i + 1])],
              LAMBDA r: r # FNaN)

\* (1 + daily_returns).cumprod()
RECURSIVE cumprod1p(_)
cumprod1p(rs) ==
    IF rs = <<>> THEN <<>>
    ELSE LET front == cumprod1p(SubSeq(rs, 1, Len(rs) - 1))
             last == IF front = <<>> THEN RetScale ELSE front[Len(front)]
         IN  Append(front, FMul(last, FAdd(RetScale, rs[Len(rs)])))

\* Series.std() (ddof = 1): nan for fewer than two values
SeriesStd(rs) ==
    LET n == Len(rs) IN
    IF n <= 1 \/ \E i \in 1..n : ~IsFinite(rs[i]) THEN FNaN
    ELSE LET mean == SumSeq(rs) \div n
             dev == [i \in 1..n |-> Abs(rs[i] - mean)]
             md == MaxAbsSeq(dev)
             k == IF md > 20000 THEN (md \div 20000) + 1 ELSE 1
             ss == SumSeq([i \in 1..n |-> (dev[i] \div k) * (dev[i] \div k)])
         IN  k * ISqrt(ss \div (n - 1))

\* x * np.sqrt(periods), for periods = 252 (sqrt(252) = 15.874508)
TimesSqrt252(x) == IF x = FNaN THEN FNaN ELSE MulDiv(x, 15874508, 1000000)

\* cumulative_wealth.expanding().max()
RECURSIVE expanding_max(_)
expanding_max(ws) ==
    IF ws = <<>> THEN <<>>
    ELSE LET front == expanding_max(SubSeq(ws, 1, Len(ws) - 1))
             w == ws[Len(ws)]
         IN  Append(front, IF front = <<>> THEN w ELSE Max2(front[Len(front)], w))

RECURSIVE MinSeq(_)
MinSeq(q) == IF Len(q) = 1 THEN q[1] ELSE Min2(q[1], MinSeq(Tail(q)))

\* drawdown = (cumulative_wealth - running_max) / running_max; drawdown.min()
drawdown_min(ws) ==
    LET rm == expanding_max(ws)
    IN  MinSeq([i \in 1..Len(ws) |-> FDiv(FSub(ws[i], rm[i]), rm[i])])

\* max_drawdown as _calculate_results assigns it
results_max_drawdown(ws) == drawdown_min(ws)

\* variant: the ratio without its guard
results_sharpe_ratio_unguarded(annualized_return, volatility) ==
    FDiv(annualized_return, volatility)

\* sharpe_ratio and calmar_ratio as _calculate_results assigns them
results_sharpe_ratio(annualized_return, volatility) ==
    IF FGt(volatility, 0) THEN FDiv(annualized_return, volatility) ELSE 0

results_calmar_ratio(annualized_return, max_drawdown) ==
    IF max_drawdown # 0 THEN FDiv(annualized_return, FAbs(max_drawdown)) ELSE 0

NoResults == [total_return |-> 0, annualized_return |-> 0, volatility |-> 0,
              sharpe_ratio |-> 0, max_drawdown |-> 0, calmar_ratio |-> 0,
              total_rebalances |-> 0, total_transaction_costs |-> 0,
              total_gas_costs |-> 0, net_yield_after_costs |-> 0]

\* _calculate_results: [raises |-> the exception raised or "none",
\*                      results |-> the BacktestResults]
\* (the fields kept are the scalar performance and cost fields)
calculate_results(values, events) ==
    LET daily_returns == daily_returns_of(values)
        n == Len(daily_returns)
        cumulative_wealth == cumprod1p(daily_returns)
        with_fields == SelectSeq(events, LAMBDA e: e.has_fields)
    IN  IF n = 0 THEN [raises |-> "IndexError", results |-> NoResults]
        ELSE IF Len(events) > 0 /\ with_fields = <<>>
        THEN [raises |-> "KeyError", results |-> NoResults]
        ELSE
        LET total_return == FSub(cumulative_wealth[n], RetScale)
            annualized_return == FSub(FPow(FAdd(RetScale, total_return), 252, n), RetScale)
            volatility == TimesSqrt252(SeriesStd(daily_returns))
            max_drawdown == results_max_drawdown(cumulative_wealth)
            total_transaction_costs ==
                SumSeq([i \in 1..Len(with_fields) |-> with_fields[i].transaction_cost])
            total_gas_costs ==
                SumSeq([i \in 1..Len(with_fields) |-> with_fields[i].gas_cost])
        IN  [raises |-> "none",
             results |->
               [total_return |-> total_return,
                annualized_return |-> annualized_return,
                volatility |-> volatility,
                sharpe_ratio |-> results_sharpe_ratio(annualized_return, volatility),
                max_drawdown |-> max_drawdown,
                calmar_ratio |-> results_calmar_ratio(annualized_return, max_drawdown),
                total_rebalances |-> Len(events),
                total_transaction_costs |-> total_transaction_costs,
                total_gas_costs |-> total_gas_costs,
                net_yield_after_costs |->
                    FSub(total_return,
                         MulDiv(total_transaction_costs + total_gas_costs * BalScale,
                                RetScale, values[1]))]]

(***************************************************************************)
(* Inputs of the simulation engine.                                        *)
(***************************************************************************)
MaxPeriods == 3

\* one observation's yields (bp): at target, cmUSD shocked to 100 bp above
\* target, all zero, all negative
YieldRows ==
    {DefaultTargetYields,
     [DefaultTargetYields EXCEPT !["cmUSD"] = 1500],
     AssetMap(LAMBDA a: 0),
     AssetMap(LAMBDA a: -3650)}

\* distance between consecutive observations, in ticks
Gaps == {1, 2}

FirstDate == 20

\* the date-sorted series _prepare_data leaves in self.data
RECURSIVE SeriesOfLen(_)
SeriesOfLen(n) ==
    IF n = 0 THEN {<<>>}
    ELSE {Append(q, [date |-> IF q = <<>> THEN FirstDate ELSE q[Len(q)].date + g,
                     y |-> yr]) :
              q \in SeriesOfLen(n - 1), g \in Gaps, yr \in YieldRows}

AllSeries == UNION {SeriesOfLen(n) : n \in 0..MaxPeriods}

TinySupplyCaps == AssetMap(LAMBDA a: IF a = "cmBTC" THEN 10 ELSE 20 * CapScale)

W(pct) == pct * (WeightScale \div 100)

\* configurations that __post_init__ accepts
SimConfigs ==
    {c \in {ConfigFields(W(40), W(30), W(20), W(10), tm[1], tm[2], DefaultSupplyCaps, 5) :
                tm \in {<<0, 2>>, <<100, 0>>, <<100, 1>>, <<100, 2>>}}
           \cup {ConfigFields(W(25), W(45), W(25), W(5), 100, 1, TinySupplyCaps, 50),
                 ConfigFields(W(50), W(30), 0, W(20), 100, 1, DefaultSupplyCaps, 5),
                 [ConfigFields(W(40), W(30), W(20), W(10), 100, 0, DefaultSupplyCaps, 5)
                      EXCEPT !.max_rebalance_frequency = 1],
                 ConfigFields(W(40), W(30), W(20), W(10), 100, 1, TinySupplyCaps, 0)} :
        ~post_init_raises(c)}

SmallPortfolio == AssetMap(LAMBDA a: IF a = "cmBRL" THEN 30 * BalScale ELSE 20 * BalScale)

\* (start_date, end_date, initial_portfolio) of a run_backtest call
Calls ==
    {[start |-> FirstDate, end |-> FirstDate + 100, initial_portfolio |-> "None"],
     [start |-> FirstDate + 1, end |-> FirstDate + 100, initial_portfolio |-> "small"],
     [start |-> FirstDate + 50, end |-> FirstDate + 100, initial_portfolio |-> "None"]}

initial_portfolio_of(c) ==
    IF c.initial_portfolio = "None" THEN DefaultInitialPortfolio ELSE SmallPortfolio

\* variant: the run proceeds on an empty selection
no_data_check_skipped(filtered) == FALSE

\* len(backtest_data) == 0: run_backtest raises ValueError
no_data_available(filtered) == Len(filtered) = 0

\* variant: the simulation works on the object it was passed
no_deepcopy(ref) == ref

\* deepcopy(initial_portfolio): a new object, whatever was passed
deepcopy(ref) == "copy"

MaxCalls == 2

(***************************************************************************)
(* The simulation engine as a state machine: one CCYOEBacktester instance  *)
(* and its run_backtest calls, one at a time, stepping through the loop of *)
(* _run_simulation.                                                        *)
(***************************************************************************)
VARIABLES
    data,                \* self.data
    config,              \* self.config
    pc,                  \* "idle", "simulating", "returned", "raised"
    call,                \* the arguments of the run_backtest call in progress
    backtest_data,       \* the filtered rows
    idx,                 \* rows of backtest_data already processed
    current_portfolio,   \* balances, 1/BalScale of a million USD
    last_rebalance_date, \* NoDate for None
    rebalance_events,    \* the event log
    trigger_dates,       \* history: the dates at which an event was appended
    daily_values,        \* the daily value rows (date, portfolio_value)
    results,             \* the BacktestResults returned
    error,               \* the exception raised, "none" if none
    calls_left,          \* run_backtest calls the caller will still make
    caller_portfolio,    \* the dictionary the caller passes as initial_portfolio
    portfolio_ref,       \* the object current_portfolio names: "copy" (the
                         \* simulation's own), "caller" or "local" (the
                         \* dictionary run_backtest built), "none" outside a run
    previous_run         \* history: the call before the one in progress

simvars == <<data, config, pc, call, backtest_data, idx, current_portfolio,
             last_rebalance_date, rebalance_events, trigger_dates, daily_values,
             results, error, calls_left, caller_portfolio, portfolio_ref,
             previous_run>>

NoRun == [pc |-> "none", call |-> [start |-> 0, end |-> 0, initial_portfolio |-> "None"],
          rebalance_events |-> <<>>, daily_values |-> <<>>]

NoCall == [start |-> 0, end |-> 0, initial_portfolio |-> "None"]

SimIdle ==
    /\ pc = "idle"
    /\ call = NoCall
    /\ backtest_data = <<>>
    /\ idx = 0
    /\ current_portfolio = DefaultInitialPortfolio
    /\ last_rebalance_date = NoDate
    /\ rebalance_events = <<>>
    /\ trigger_dates = <<>>
    /\ daily_values = <<>>
    /\ results = NoResults
    /\ error = "none"
    /\ caller_portfolio = SmallPortfolio
    /\ portfolio_ref = "none"
    /\ previous_run = NoRun

SimInit ==
    /\ data \in AllSeries
    /\ config \in SimConfigs
    /\ calls_left = 1
    /\ SimIdle

\* run_backtest up to the start of the loop: filter, empty check, and the
\* initial state of _run_simulation
run_backtest_begin(c) ==
    /\ pc \in {"idle", "returned", "raised"}
    /\ calls_left > 0
    /\ calls_left' = calls_left - 1
    /\ previous_run' = IF pc = "idle" THEN NoRun
                       ELSE [pc |-> pc, call |-> call,
                             rebalance_events |-> rebalance_events,
                             daily_values |-> daily_values]
    /\ LET filtered == filter_data(data, c.start, c.end) IN
       /\ call' = c
       /\ backtest_data' = filtered
       /\ idx' = 0
       /\ current_portfolio' = IF c.initial_portfolio = "None"
                               THEN DefaultInitialPortfolio ELSE caller_portfolio
       /\ last_rebalance_date' = NoDate
       /\ rebalance_events' = <<>>
       /\ trigger_dates' = <<>>
       /\ daily_values' = <<>>
       /\ results' = NoResults
       /\ IF no_data_available(filtered)
          THEN pc' = "raised" /\ error' = "ValueError" /\ portfolio_ref' = "none"
          ELSE /\ pc' = "simulating"
               /\ error' = "none"
               /\ portfolio_ref' = deepcopy(IF c.initial_portfolio = "None"
                                            THEN "local" ELSE "caller")
    /\ UNCHANGED <<data, config, caller_portfolio>>

\* the loop body of _run_simulation on one row: trigger evaluation,
\* rebalancing if needed, the daily value row, compounding
run_simulation_body(c, portfolio, last_date, row) ==
    LET current_date == row.date
        current_yields == row.y
        chk == check_rebalance_conditions(c, current_yields, last_date, current_date)
        reb == execute_rebalancing(c, portfolio, chk.excess_yields, current_date)
        after == IF chk.needed THEN reb.portfolio ELSE portfolio
    IN  [rebalance_needed |-> chk.needed,
         event |-> reb.event,
         last_rebalance_date |-> IF chk.needed THEN current_date ELSE last_date,
         daily_value |-> [date |-> current_date,
                          portfolio_value |-> calculate_portfolio_value(after),
                          values |-> after],
         portfolio |-> AssetMap(LAMBDA a: compound(after[a], current_yields[a]))]

\* one iteration of the loop of _run_simulation
simulate_period ==
    /\ pc = "simulating"
    /\ idx < Len(backtest_data)
    /\ \E step \in {run_simulation_body(config, current_portfolio,
                                        last_rebalance_date, backtest_data[idx + 1])} :
           /\ rebalance_events' =
                  IF step.rebalance_needed THEN Append(rebalance_events, step.event)
                  ELSE rebalance_events
           /\ trigger_dates' =
                  IF step.rebalance_needed
                  THEN Append(trigger_dates, step.daily_value.date)
                  ELSE trigger_dates
           /\ last_rebalance_date' = step.last_rebalance_date
           /\ daily_values' = Append(daily_values, step.daily_value)
           /\ current_portfolio' = step.portfolio
           /\ caller_portfolio' = IF portfolio_ref = "caller" THEN step.portfolio
                                  ELSE caller_portfolio
    /\ idx' = idx + 1
    /\ UNCHANGED <<data, config, pc, call, backtest_data, results, error, calls_left,
                   portfolio_ref, previous_run>>

\* the end of the loop: _calculate_results and the return of run_backtest
finish_backtest ==
    /\ pc = "simulating"
    /\ idx = Len(backtest_data)
    /\ \E out \in {calculate_results(
                      [i \in 1..Len(daily_values) |-> daily_values[i].portfolio_value],
                      rebalance_events)} :
           /\ error' = out.raises
           /\ results' = out.results
           /\ pc' = IF out.raises = "none" THEN "returned" ELSE "raised"
    /\ UNCHANGED <<data, config, call, backtest_data, idx, current_portfolio,
                   last_rebalance_date, rebalance_events, trigger_dates, daily_values,
                   calls_left, caller_portfolio, portfolio_ref, previous_run>>

SimNext ==
    \/ \E c \in Calls : run_backtest_begin(c)
    \/ simulate_period
    \/ finish_backtest

(***************************************************************************)
(* The metrics library (PerformanceMetrics, utils/metrics.py), on a series *)
(* of period returns in 1/RetScale.  risk_free_rate is the default 0.0.    *)
(***************************************************************************)
metrics_total_return(returns) ==
    IF Len(returns) = 0 THEN 0
    ELSE FSub(cumprod1p(returns)[Len(returns)], RetScale)

metrics_annualized_return(returns) ==
    IF Len(returns) = 0 THEN 0
    ELSE FSub(FPow(FAdd(RetScale, metrics_total_return(returns)), 252, Len(returns)),
              RetScale)

metrics_volatility(returns) ==
    IF Len(returns) <= 1 THEN 0 ELSE TimesSqrt252(SeriesStd(returns))

metrics_max_drawdown(returns) ==
    IF Len(returns) = 0 THEN 0 ELSE FAbs(drawdown_min(cumprod1p(returns)))

\* the ratio of sharpe_ratio, given vol and the annualized return
sharpe_of(ann_return, vol) == IF vol = 0 THEN 0 ELSE FDiv(ann_return, vol)

metrics_sharpe_ratio(returns) ==
    IF Len(returns) = 0 THEN 0
    ELSE sharpe_of(metrics_annualized_return(returns), metrics_volatility(returns))

\* the ratio of calmar_ratio, given max_dd and the annualized return
calmar_of(ann_return, max_dd) == IF max_dd = 0 THEN 0 ELSE FDiv(ann_return, max_dd)

metrics_calmar_ratio(returns) ==
    IF Len(returns) = 0 THEN 0
    ELSE calmar_of(metrics_annualized_return(returns), metrics_max_drawdown(returns))

MaxReturns == 3

ReturnValues == {-20000, 0, 5000, 20000}

RECURSIVE ReturnSeriesOfLen(_)
ReturnSeriesOfLen(n) ==
    IF n = 0 THEN {<<>>}
    ELSE {Append(q, r) : q \in ReturnSeriesOfLen(n - 1), r \in ReturnValues}

ReturnSeries == UNION {ReturnSeriesOfLen(n) : n \in 0..MaxReturns}

VARIABLES
    m_pc,        \* "parked", "ready", "computed"
    m_returns,   \* the series handed to the metrics functions
    m_out        \* what the functions returned

mvars == <<m_pc, m_returns, m_out>>

NoMetrics == [total_return |-> 0, annualized_return |-> 0, volatility |-> 0,
              sharpe_ratio |-> 0, max_drawdown |-> 0, calmar_ratio |-> 0]

MetricsParked == m_pc = "parked" /\ m_returns = <<>> /\ m_out = NoMetrics

MetricsInit == m_pc = "ready" /\ m_returns \in ReturnSeries /\ m_out = NoMetrics

\* one call of each metric function on the series
compute_metrics ==
    /\ m_pc = "ready"
    /\ m_pc' = "computed"
    /\ m_out' = [total_return |-> metrics_total_return(m_returns),
                 annualized_return |-> metrics_annualized_return(m_returns),
                 volatility |-> metrics_volatility(m_returns),
                 sharpe_ratio |-> metrics_sharpe_ratio(m_returns),
                 max_drawdown |-> metrics_max_drawdown(m_returns),
                 calmar_ratio |-> metrics_calmar_ratio(m_returns)]
    /\ UNCHANGED m_returns

MetricsNext == compute_metrics

(***************************************************************************)
(* Construction of an OptimizationConfig.                                  *)
(***************************************************************************)
\* allocation weights a caller may pass: multiples of 5%, values a few
\* 1e-6 away from them, and a negative weight
CtorWeights == {W(10), W(20), W(30), W(40),
                W(10) + 5000, W(10) + 20000, W(10) - 20000,
                -W(10)}

CtorThresholds == {0, 100}

CtorIntervals == {-1, 1}

VARIABLES
    ctor_pc,      \* "parked", "ready", "constructed", "raised"
    ctor_args,    \* the arguments passed to OptimizationConfig(...)
    ctor_config   \* the object constructed

cvars == <<ctor_pc, ctor_args, ctor_config>>

NoConfig == ConfigFields(0, 0, 0, 0, 0, 0, DefaultSupplyCaps, 0)

NoCtorArgs == [weights |-> <<0, 0, 0, 0>>, rebalance_threshold |-> 0,
               min_rebalance_interval |-> 0]

CtorParked == ctor_pc = "parked" /\ ctor_args = NoCtorArgs /\ ctor_config = NoConfig

CtorInit == ctor_pc = "ready" /\ ctor_args = NoCtorArgs /\ ctor_config = NoConfig

\* OptimizationConfig(under_supplied_allocation=us, ...): the dataclass
\* __init__ followed by __post_init__
construct_config(us, sg, pr, tr, thr, mi) ==
    /\ ctor_pc = "ready"
    /\ ctor_args' = [weights |-> <<us, sg, pr, tr>>, rebalance_threshold |-> thr,
                     min_rebalance_interval |-> mi]
    /\ LET c == ConfigFields(us, sg, pr, tr, thr, mi, DefaultSupplyCaps, 5) IN
       IF post_init_raises(c)
       THEN ctor_pc' = "raised" /\ ctor_config' = NoConfig
       ELSE ctor_pc' = "constructed" /\ ctor_config' = c

CtorNext ==
    /\ ctor_pc = "ready"
    /\ \E us \in CtorWeights, sg \in CtorWeights, pr \in CtorWeights, tr \in CtorWeights,
       thr \in CtorThresholds, mi \in CtorIntervals :
        construct_config(us, sg, pr, tr, thr, mi)

(***************************************************************************)
(* YieldOptimizer (core/optimizer.py).  A parameter vector is the tuple    *)
(* <<under_supplied, strategic_growth, proportional, treasury,             *)
(*   rebalance_threshold, transaction_cost>>: the four weights in units of *)
(* 1/WeightScale, the last two in basis points.                            *)
(***************************************************************************)
\* OPTIMIZATION_CONSTRAINTS
min_allocation == W(5)
max_allocation == W(50)
min_treasury_allocation == W(5)
max_treasury_allocation == W(15)
rebalance_threshold_min == 25
rebalance_threshold_max == 500
transaction_cost_min == 1
transaction_cost_max == 50

\* _setup_bounds with no override
setup_bounds ==
    << [lo |-> min_allocation, hi |-> max_allocation],
       [lo |-> min_allocation, hi |-> max_allocation],
       [lo |-> min_allocation, hi |-> max_allocation],
       [lo |-> min_treasury_allocation, hi |-> max_treasury_allocation],
       [lo |-> rebalance_threshold_min, hi |-> rebalance_threshold_max],
       [lo |-> transaction_cost_min, hi |-> transaction_cost_max] >>

WithinBounds(x) ==
    \A i \in 1..6 : setup_bounds[i].lo <= x[i] /\ x[i] <= setup_bounds[i].hi

\* param_names, in the order of the parameter vector
param_names == <<"under_supplied_allocation", "strategic_growth_allocation",
                 "proportional_allocation", "treasury_allocation",
                 "rebalance_threshold", "transaction_cost">>

\* bounds=None: no override
NoOverride == [p \in {} |-> <<0, 0>>]

\* _setup_bounds(bounds_override): the default bounds with the overrides, a
\* mapping from parameter names to (min, max), applied
setup_bounds_override(bounds_override) ==
    [i \in 1..6 |->
        IF param_names[i] \in DOMAIN bounds_override
        THEN [lo |-> bounds_override[param_names[i]][1],
              hi |-> bounds_override[param_names[i]][2]]
        ELSE setup_bounds[i]]

\* x lies within the bounds b
WithinBoundsOf(x, b) == \A i \in 1..6 : b[i].lo <= x[i] /\ x[i] <= b[i].hi

\* validate_asset_weights(weights) with its default tolerance 1e-6
validate_asset_weights(weights) ==
    Abs((weights[1] + weights[2] + weights[3] + weights[4]) - WeightScale)
        <= WeightScale \div 1000000

\* _setup_constraints with no additional constraint: the equality
\* constraint and the eight inequality constraints
weight_sum_constraint(params) == (params[1] + params[2] + params[3] + params[4]) - WeightScale

min_constraint(params, i) == params[i] - min_allocation

max_constraint(params, i) == max_allocation - params[i]

\* the constraints hold at params to within tol
ConstraintsSatisfied(params, tol) ==
    /\ Abs(weight_sum_constraint(params)) <= tol
    /\ \A i \in 1..4 : min_constraint(params, i) >= -tol /\ max_constraint(params, i) >= -tol

\* 1000 * violation ** 2 for a violation in 1/WeightScale, in 1/RetScale
PenaltyOf(violation) == MulDiv(violation, violation, WeightScale)

\* the penalty penalized_objective adds
penalty_of(params) ==
    PenaltyOf(Abs(weight_sum_constraint(params)))
    + PenaltyOf(Max2(0, -min_constraint(params, 1))) + PenaltyOf(Max2(0, -max_constraint(params, 1)))
    + PenaltyOf(Max2(0, -min_constraint(params, 2))) + PenaltyOf(Max2(0, -max_constraint(params, 2)))
    + PenaltyOf(Max2(0, -min_constraint(params, 3))) + PenaltyOf(Max2(0, -max_constraint(params, 3)))
    + PenaltyOf(Max2(0, -min_constraint(params, 4))) + PenaltyOf(Max2(0, -max_constraint(params, 4)))

\* OptimizationConfig() with every default
DefaultConfig == ConfigFields(W(40), W(30), W(20), W(10), 100, 1, DefaultSupplyCaps, 5)

\* variant: the last two elements are assigned to each other's attribute
params_to_config_swapped(base, params) ==
    [(IF base.given THEN base.config ELSE DefaultConfig) EXCEPT
        !.under_supplied_allocation = params[1],
        !.strategic_growth_allocation = params[2],
        !.proportional_allocation = params[3],
        !.treasury_allocation = params[4],
        !.rebalance_threshold = params[6],
        !.transaction_cost = params[5]]

\* _params_to_config: a copy of the base config (the default config when
\* there is none) with the six attributes assigned; nothing is validated
params_to_config(base, params) ==
    [(IF base.given THEN base.config ELSE DefaultConfig) EXCEPT
        !.under_supplied_allocation = params[1],
        !.strategic_growth_allocation = params[2],
        !.proportional_allocation = params[3],
        !.treasury_allocation = params[4],
        !.rebalance_threshold = params[5],
        !.transaction_cost = params[6]]

\* _config_to_params
config_to_params(c) ==
    << c.under_supplied_allocation, c.strategic_growth_allocation,
       c.proportional_allocation, c.treasury_allocation,
       c.rebalance_threshold, c.transaction_cost >>

\* len(_setup_constraints(additional_constraints)): the equality constraint,
\* the four minimum and four maximum constraints, and the caller's own
setup_constraints_len(additional) == 1 + 4 + 4 + additional

\* the number of additional constraints a caller passes
AdditionalConstraints == {0, 1}

\* the methods of _optimize_scipy whose minimize call is made: L-BFGS-B is
\* skipped when the list of constraints is not empty
scipy_methods_run(n_constraints) ==
    SelectSeq(<<"SLSQP", "L-BFGS-B">>,
              LAMBDA meth: meth = "SLSQP" \/ n_constraints = 0)

\* the initial guess of _optimize_scipy and _optimize_basinhopping
initial_guess(base) ==
    IF base.given THEN config_to_params(base.config)
    ELSE <<W(40), W(30), W(20), W(10), 100, 5>>

(***************************************************************************)
(* str(params) of a numpy array of doubles (print precision 8).  numpy     *)
(* prints the array in exponential notation when the largest magnitude is  *)
(* >= 1e8, the smallest nonzero magnitude is < 1e-4, or their ratio        *)
(* exceeds 1000; otherwise in fixed notation with at most 8 fractional     *)
(* digits.  The weights are taken below 2.0 and the last two elements      *)
(* integral and below 2000, as the bounds make them.                       *)
(***************************************************************************)
WeightMags(params) == {Abs(params[i]) : i \in 1..4} \ {0}

OtherMags(params) == {Abs(params[5]), Abs(params[6])} \ {0}

ExpFormat(params) ==
    \/ \E w \in WeightMags(params) : w < WeightScale \div 10000
    \/ \E w1 \in WeightMags(params), w2 \in WeightMags(params) : (w1 - 1) \div 1000 >= w2
    \/ \E t \in OtherMags(params), w \in WeightMags(params) : t * (WeightScale \div 1000) > w
    \/ \E t1 \in OtherMags(params), t2 \in OtherMags(params) : t1 > 1000 * t2

\* a weight rounded to 8 fractional digits
Round8(w) == IF w >= 0 THEN ((w + 5) \div 10) * 10 ELSE -(((5 - w) \div 10) * 10)

\* a weight printed with a mantissa of 8 fractional digits
RoundMantissa8(w) == IF Abs(w) >= WeightScale THEN Round8(w) ELSE w

\* the cache key: the notation and the digits printed
StrKey(params) ==
    IF ExpFormat(params)
    THEN <<"e", RoundMantissa8(params[1]), RoundMantissa8(params[2]),
           RoundMantissa8(params[3]), RoundMantissa8(params[4]), params[5], params[6]>>
    ELSE <<"f", Round8(params[1]), Round8(params[2]), Round8(params[3]),
           Round8(params[4]), params[5], params[6]>>

\* _run_simulation as a fold over the rows: the portfolio values and events
RECURSIVE run_simulation(_, _, _, _, _, _)
run_simulation(c, rows, portfolio, last_date, values, events) ==
    IF rows = <<>> THEN [values |-> values, events |-> events]
    ELSE CHOOSE r \in
             { run_simulation(c, Tail(rows), step.portfolio, step.last_rebalance_date,
                              Append(values, step.daily_value.portfolio_value),
                              IF step.rebalance_needed THEN Append(events, step.event)
                              ELSE events) :
               step \in {run_simulation_body(c, portfolio, last_date, Head(rows))} } : TRUE

\* CCYOEBacktester(data, config).run_backtest(start_date, end_date) with the
\* default initial portfolio: [raises, results]
run_backtest(rows, c, start, end) ==
    LET filtered == filter_data(rows, start, end) IN
    IF no_data_available(filtered) THEN [raises |-> "ValueError", results |-> NoResults]
    ELSE CHOOSE r \in
             { calculate_results(sim.values, sim.events) :
               sim \in {run_simulation(c, filtered, DefaultInitialPortfolio, NoDate,
                                       <<>>, <<>>)} } : TRUE

\* the attributes of BacktestResults an objective can name
ResultAttributes == {"total_return", "annualized_return", "volatility", "sharpe_ratio",
                     "max_drawdown", "calmar_ratio"}

\* the objectives objective_function negates
MaximizedObjectives == {"total_return", "annualized_return", "sharpe_ratio", "calmar_ratio"}

FNeg(x) == IF x = FNaN THEN FNaN ELSE -x

\* getattr(results, objective)
getattr_results(r, objective) ==
    CASE objective = "total_return" -> r.total_return
      [] objective = "annualized_return" -> r.annualized_return
      [] objective = "volatility" -> r.volatility
      [] objective = "sharpe_ratio" -> r.sharpe_ratio
      [] objective = "max_drawdown" -> r.max_drawdown
      [] objective = "calmar_ratio" -> r.calmar_ratio

VARIABLES
    o_pc,              \* "parked", "idle", "searching", "returned", "raised"
    o_data,            \* self.data: [parsable, rows]; parsable is FALSE when
                       \* pd.to_datetime cannot parse the 'date' column
    base_config,       \* self.base_config: [given, config]
    o_schedule,        \* the calls of optimize_distribution_weights still to come
    o_call,            \* the arguments of the call in progress
    cache,             \* self._cache: entries [key, value]; params, objective,
                       \* start and end record what the value was computed for
    evaluation_count,  \* self._evaluation_count
    o_nevals,          \* calls of the objective function made on this instance
    o_evals,           \* the points the search in progress has evaluated
    o_last,            \* the last call of the objective function: its argument,
                       \* the config built from it and its outcome
    o_result,          \* the OptimizationResult returned
    o_error,           \* the exception the call raised, "none" if none
    o_valid,           \* what validate_optimization_results returned for
                       \* o_result: "valid", "invalid", or "unchecked"
    o_methods          \* the methods _optimize_scipy has passed to minimize in
                       \* the call in progress

ovars == <<o_pc, o_data, base_config, o_schedule, o_call, cache, evaluation_count,
           o_nevals, o_evals, o_last, o_result, o_error, o_valid, o_methods>>

NoEntry == [key |-> <<>>, value |-> 0, params |-> <<>>, objective |-> "none",
            start |-> 0, end |-> 0]

NoEval == [x |-> <<>>, config |-> NoConfig, raises |-> "none", value |-> 0,
           hit |-> FALSE, simulated |-> FALSE, known |-> FALSE, entry |-> NoEntry]

NoOptCall == [objective |-> "none", start |-> 0, end |-> 0, method |-> "none",
              bounds |-> NoOverride]

NoOptResult == [optimal_params |-> <<>>, optimal_value |-> 0,
                optimization_method |-> "none", convergence_status |-> "none"]

\* objective_function(params) of _create_objective_function(objective,
\* start_date, end_date): the outcome and the cache and counter it leaves
objective_function(c, params) ==
    LET config_x == params_to_config(base_config, params)
        cache_key == StrKey(params)
        hits == {e \in cache : e.key = cache_key}
        known == \E e \in cache : e.params = params
        out(raises, value, hit, simulated, entry, cache_after, count_after) ==
            [eval |-> [x |-> params, config |-> config_x, raises |-> raises,
                       value |-> value, hit |-> hit, simulated |-> simulated,
                       known |-> known, entry |-> entry],
             cache |-> cache_after, count |-> count_after]
    IN  IF hits # {}
        THEN LET e == CHOOSE e \in hits : TRUE
             IN  out("none", e.value, TRUE, FALSE, e, cache, evaluation_count)
        ELSE IF ~o_data.parsable
        THEN out("ValueError", 0, FALSE, FALSE, NoEntry, cache, evaluation_count)
        ELSE CHOOSE r \in
               { IF bt.raises # "none" \/ c.objective \notin ResultAttributes
                 THEN out("none", FInf, FALSE, TRUE, NoEntry, cache, evaluation_count)
                 ELSE LET raw == getattr_results(bt.results, c.objective)
                          value == IF c.objective \in MaximizedObjectives
                                   THEN FNeg(raw) ELSE raw
                          entry == [key |-> cache_key, value |-> value,
                                    params |-> params, objective |-> c.objective,
                                    start |-> c.start, end |-> c.end]
                      IN  out("none", value, FALSE, TRUE, entry, cache \cup {entry},
                              evaluation_count + 1) :
                 bt \in {run_backtest(o_data.rows, config_x, c.start, c.end)} } : TRUE

(***************************************************************************)
(* Inputs of the optimizer.                                                *)
(***************************************************************************)
MaxEvals == 3

OptRows == << [date |-> FirstDate, y |-> [cmBTC |-> 1000, cmUSD |-> 1400, cmBRL |-> 2000]],
              [date |-> FirstDate + 2, y |-> DefaultTargetYields],
              [date |-> FirstDate + 4, y |-> [cmBTC |-> 500, cmUSD |-> 1500, cmBRL |-> 2000]] >>

OptData == {[parsable |-> TRUE, rows |-> OptRows],
            [parsable |-> TRUE, rows |-> SubSeq(OptRows, 1, 2)],
            [parsable |-> FALSE, rows |-> OptRows]}

BaseConfigs ==
    {[given |-> FALSE, config |-> NoConfig],
     [given |-> TRUE,
      config |-> ConfigFields(W(30), W(30), W(30), W(10), 50, 1, TinySupplyCaps, 10)]}

\* a caller's override that widens the bounds of the transaction cost
WideBounds == [p \in {"transaction_cost"} |-> <<1, 100>>]

\* the vectors a search may try: all within the bounds of some call
CandidateVectors ==
    { <<W(40), W(30), W(20), W(10), 100, 5>>,
      <<W(40), W(30), W(20), W(10), 100, 60>>,
      <<W(40) + 1, W(30) - 1, W(20), W(10), 100, 5>>,
      <<W(25), W(45), W(25), W(5), 100, 50>>,
      <<W(45), W(30), W(20), W(10), 100, 5>>,
      <<W(30), W(30), W(30), W(10), 50, 10>> }

OptCallWithBounds(objective, start, end, method, bounds) ==
    [objective |-> objective, start |-> start, end |-> end, method |-> method,
     bounds |-> bounds]

OptCall(objective, start, end, method) ==
    OptCallWithBounds(objective, start, end, method, NoOverride)

OptSchedules ==
    { <<OptCall("sharpe_ratio", FirstDate, FirstDate + 100, "genetic")>>,
      <<OptCall("total_return", FirstDate, FirstDate + 100, "scipy")>>,
      <<OptCall("max_drawdown", FirstDate, FirstDate + 100, "basinhopping")>>,
      <<OptCall("total_return", FirstDate + 50, FirstDate + 100, "genetic")>>,
      <<OptCall("no_such_attribute", FirstDate, FirstDate + 100, "scipy")>>,
      <<OptCall("sharpe_ratio", FirstDate, FirstDate + 100, "unknown")>>,
      <<OptCall("volatility", FirstDate, FirstDate + 100, "scipy")>>,
      <<OptCallWithBounds("total_return", FirstDate, FirstDate + 100, "scipy", WideBounds)>>,
      <<OptCall("total_return", FirstDate, FirstDate + 100, "scipy"),
        OptCall("sharpe_ratio", FirstDate, FirstDate + 100, "genetic")>>,
      <<OptCall("total_return", FirstDate, FirstDate + 100, "basinhopping"),
        OptCall("total_return", FirstDate, FirstDate + 2, "scipy")>> }

OptParked ==
    /\ o_pc = "parked"
    /\ o_data = [parsable |-> TRUE, rows |-> <<>>]
    /\ base_config = [given |-> FALSE, config |-> NoConfig]
    /\ o_schedule = <<>>
    /\ o_call = NoOptCall
    /\ cache = {}
    /\ evaluation_count = 0
    /\ o_nevals = 0
    /\ o_evals = {}
    /\ o_last = NoEval
    /\ o_result = NoOptResult
    /\ o_error = "none"
    /\ o_valid = "unchecked"
    /\ o_methods = <<>>

\* YieldOptimizer(data, base_config)
OptInit ==
    /\ o_pc = "idle"
    /\ o_data \in OptData
    /\ base_config \in BaseConfigs
    /\ o_schedule \in OptSchedules
    /\ o_call = NoOptCall
    /\ cache = {}
    /\ evaluation_count = 0
    /\ o_nevals = 0
    /\ o_evals = {}
    /\ o_last = NoEval
    /\ o_result = NoOptResult
    /\ o_error = "none"
    /\ o_valid = "unchecked"
    /\ o_methods = <<>>

\* optimize_distribution_weights up to the start of the search
optimize_begin ==
    /\ o_pc \in {"idle", "returned", "raised"}
    /\ o_schedule # <<>>
    /\ o_call' = Head(o_schedule)
    /\ o_schedule' = Tail(o_schedule)
    /\ evaluation_count' = 0
    /\ o_evals' = {}
    /\ o_last' = NoEval
    /\ o_result' = NoOptResult
    /\ o_valid' = "unchecked"
    /\ \E additional \in AdditionalConstraints :
           o_methods' = IF Head(o_schedule).method = "scipy"
                        THEN scipy_methods_run(setup_constraints_len(additional))
                        ELSE <<>>
    /\ IF Head(o_schedule).method \in {"scipy", "genetic", "basinhopping"}
       THEN o_pc' = "searching" /\ o_error' = "none"
       ELSE o_pc' = "raised" /\ o_error' = "ValueError"
    /\ UNCHANGED <<o_data, base_config, cache, o_nevals>>

\* the search strategy calls the objective function at a point x within the
\* bounds it was given (through penalized_objective when the method is
\* genetic); an exception leaves
\* minimize, is caught by _optimize_scipy, which then has no result and
\* raises RuntimeError, and propagates from the other two strategies
evaluate(x) ==
    /\ o_pc = "searching"
    /\ o_nevals < MaxEvals
    /\ WithinBoundsOf(x, setup_bounds_override(o_call.bounds))
    /\ (o_evals = {} /\ o_call.method # "genetic") => x = initial_guess(base_config)
    /\ \E out \in {objective_function(o_call, x)} :
          /\ o_last' = out.eval
          /\ cache' = out.cache
          /\ evaluation_count' = out.count
          /\ IF out.eval.raises = "none"
             THEN /\ o_evals' = o_evals \cup
                        {[x |-> x, value |-> out.eval.value,
                          penalized |-> FAdd(out.eval.value, penalty_of(x))]}
                  /\ UNCHANGED <<o_pc, o_error>>
             ELSE /\ o_pc' = "raised"
                  /\ o_error' = IF o_call.method = "scipy" THEN "RuntimeError"
                                ELSE out.eval.raises
                  /\ UNCHANGED o_evals
    /\ o_nevals' = o_nevals + 1
    /\ UNCHANGED <<o_data, base_config, o_schedule, o_call, o_result, o_valid,
                   o_methods>>

\* result.fun != float('inf') ? -result.fun : result.fun
optimal_value_of(fun) == IF fun # FInf THEN FNeg(fun) ELSE fun

\* the search ends at an evaluated point e with the library's success flag:
\* SLSQP (scipy, and the local minimizer of basinhopping) reports success only
\* with the constraints satisfied; differential_evolution returns the member
\* with the lowest penalized objective
search_returns(e, success) ==
    /\ o_pc = "searching"
    /\ e \in o_evals
    /\ o_call.method \in {"scipy", "basinhopping"} =>
           (success => ConstraintsSatisfied(e.x, WeightScale \div 1000000))
    /\ o_call.method = "genetic" =>
           \A f \in o_evals : ~FLt(f.penalized, e.penalized)
    /\ LET fun == IF o_call.method = "genetic" THEN e.penalized ELSE e.value IN
       IF o_call.method = "scipy" /\ ~FLt(fun, FInf)
       THEN /\ o_pc' = "raised"
            /\ o_error' = "RuntimeError"
            /\ o_result' = NoOptResult
       ELSE /\ o_pc' = "returned"
            /\ o_error' = "none"
            /\ o_result' = [optimal_params |-> e.x,
                            optimal_value |-> optimal_value_of(fun),
                            optimization_method |-> o_call.method,
                            convergence_status |-> IF success THEN "success" ELSE "failed"]
    /\ UNCHANGED <<o_data, base_config, o_schedule, o_call, cache, evaluation_count,
                   o_nevals, o_evals, o_last, o_valid, o_methods>>

\* validate_optimization_results(result) on the result just returned
validate_optimization_results ==
    /\ o_pc = "returned"
    /\ o_valid = "unchecked"
    /\ o_valid' = IF /\ validate_asset_weights(o_result.optimal_params)
                     /\ WithinBoundsOf(o_result.optimal_params, setup_bounds)
                  THEN "valid" ELSE "invalid"
    /\ UNCHANGED <<o_pc, o_data, base_config, o_schedule, o_call, cache,
                   evaluation_count, o_nevals, o_evals, o_last, o_result, o_error,
                   o_methods>>

\* the series BacktestResults.daily_returns of the finished run is handed to
\* the metrics functions
analyze_run_returns ==
    /\ pc = "returned"
    /\ m_pc = "parked"
    /\ \E rs \in {daily_returns_of([i \in 1..Len(daily_values) |->
                                       daily_values[i].portfolio_value])} :
          /\ m_returns' = rs
          /\ m_out' = [total_return |-> metrics_total_return(rs),
                       annualized_return |-> metrics_annualized_return(rs),
                       volatility |-> metrics_volatility(rs),
                       sharpe_ratio |-> metrics_sharpe_ratio(rs),
                       max_drawdown |-> metrics_max_drawdown(rs),
                       calmar_ratio |-> metrics_calmar_ratio(rs)]
    /\ m_pc' = "computed"

(***************************************************************************)
(* YieldOptimizer.run_sensitivity_analysis.  A table (DataFrame) is the    *)
(* sequence of its rows; sensitivity_results maps a parameter name to its  *)
(* table.                                                                  *)
(***************************************************************************)
\* np.linspace(start, stop, num): the last of two or more points is stop
linspace(start, stop, num) ==
    [i \in 1..num |->
        IF num = 1 THEN start
        ELSE IF i = num THEN stop
        ELSE start + ((i - 1) * (stop - start)) \div (num - 1)]

\* variant: the attribute is set on the base config itself
modified_in_place(base, param, value) ==
    LET c == [base EXCEPT ![param] = value] IN [config |-> c, base |-> c]

\* config = deepcopy(self.base_config); setattr(config, param, value):
\* the config of the run and the base config afterwards
modified_copy(base, param, value) ==
    [config |-> [base EXCEPT ![param] = value], base |-> base]

MaxPoints == 3

NoTables == [p \in {} |-> <<>>]

NoSensArgs == [parameters |-> <<>>, ranges |-> NoTables, objective |-> "none",
               start |-> 0, end |-> 0, n_points |-> 0]

\* the ranges a caller passes: widths that divide evenly into the grids
SensRanges ==
    { [p \in {"under_supplied_allocation"} |-> <<W(30), W(60)>>],
      [p \in {"rebalance_threshold", "transaction_cost"} |->
          IF p = "rebalance_threshold" THEN <<200, 800>> ELSE <<0, 60>>] }

SensParameters ==
    { <<"under_supplied_allocation">>,
      <<"treasury_allocation", "under_supplied_allocation">>,
      <<"rebalance_threshold", "transaction_cost">>,
      <<"transaction_cost", "under_supplied_allocation", "rebalance_threshold">> }

SensArgs ==
    [parameters : SensParameters, ranges : SensRanges,
     objective : {"total_return", "no_such_attribute"},
     start : {FirstDate}, end : {FirstDate + 100, FirstDate - 1},
     n_points : 1..MaxPoints]

VARIABLES
    s_pc,                 \* "parked", "idle", "running", "returned", "raised"
    s_args,               \* the arguments of run_sensitivity_analysis
    s_param,              \* position of the loop in parameters
    s_results,            \* results: the rows collected for the current parameter
    sensitivity_results,  \* the dictionary returned
    s_base_before,        \* self.base_config when the call began
    s_error               \* the exception the call raised, "none" if none

svars == <<s_pc, s_args, s_param, s_results, sensitivity_results, s_base_before, s_error>>

SensParked ==
    /\ s_pc = "parked"
    /\ s_args = NoSensArgs
    /\ s_param = 0
    /\ s_results = <<>>
    /\ sensitivity_results = NoTables
    /\ s_base_before = [given |-> FALSE, config |-> NoConfig]
    /\ s_error = "none"

SensIdle ==
    /\ s_pc = "idle"
    /\ s_args = NoSensArgs
    /\ s_param = 0
    /\ s_results = <<>>
    /\ sensitivity_results = NoTables
    /\ s_base_before = [given |-> FALSE, config |-> NoConfig]
    /\ s_error = "none"

\* run_sensitivity_analysis up to the loop over the parameters
sensitivity_begin(args) ==
    /\ s_pc = "idle"
    /\ s_pc' = "running"
    /\ s_args' = args
    /\ s_param' = 1
    /\ s_results' = <<>>
    /\ sensitivity_results' = NoTables
    /\ s_base_before' = base_config
    /\ s_error' = "none"
    /\ UNCHANGED base_config

\* one backtest of the inner loop: the row appended, or the exception raised
sensitivity_row(param, value) ==
    IF ~base_config.given THEN [raises |-> "AttributeError", base |-> NoConfig]
    ELSE LET m == modified_copy(base_config.config, param, value) IN
         IF ~o_data.parsable THEN [raises |-> "ValueError", base |-> m.base]
         ELSE CHOOSE r \in
                { IF bt.raises # "none" THEN [raises |-> bt.raises, base |-> m.base]
                  ELSE IF s_args.objective \notin ResultAttributes
                  THEN [raises |-> "AttributeError", base |-> m.base]
                  ELSE [raises |-> "none", base |-> m.base,
                        row |-> [parameter_value |-> value,
                                 objective_value |-> getattr_results(bt.results, s_args.objective),
                                 total_return |-> bt.results.total_return,
                                 volatility |-> bt.results.volatility,
                                 sharpe_ratio |-> bt.results.sharpe_ratio,
                                 max_drawdown |-> bt.results.max_drawdown,
                                 config |-> m.config]] :
                  bt \in {run_backtest(o_data.rows, m.config, s_args.start, s_args.end)} } : TRUE

\* one iteration of the loop over param_values
sensitivity_point ==
    /\ s_pc = "running"
    /\ s_param <= Len(s_args.parameters)
    /\ s_args.parameters[s_param] \in DOMAIN s_args.ranges
    /\ Len(s_results) < s_args.n_points
    /\ LET param == s_args.parameters[s_param]
           param_values == linspace(s_args.ranges[param][1], s_args.ranges[param][2],
                                    s_args.n_points)
       IN  \E out \in {sensitivity_row(param, param_values[Len(s_results) + 1])} :
              /\ IF base_config.given
                 THEN base_config' = [base_config EXCEPT !.config = out.base]
                 ELSE UNCHANGED base_config
              /\ IF out.raises = "none"
                 THEN /\ s_results' = Append(s_results, out.row)
                      /\ UNCHANGED <<s_pc, s_error>>
                 ELSE /\ s_pc' = "raised"
                      /\ s_error' = out.raises
                      /\ UNCHANGED s_results
    /\ UNCHANGED <<s_args, s_param, sensitivity_results, s_base_before>>

\* the end of one iteration of the loop over parameters: a parameter
\* without a range is skipped, the table of a swept one is stored
sensitivity_next_param ==
    /\ s_pc = "running"
    /\ s_param <= Len(s_args.parameters)
    /\ LET param == s_args.parameters[s_param] IN
       IF param \notin DOMAIN s_args.ranges
       THEN UNCHANGED sensitivity_results
       ELSE /\ Len(s_results) = s_args.n_points
            /\ sensitivity_results' =
                   [q \in DOMAIN sensitivity_results \cup {param} |->
                       IF q = param THEN s_results ELSE sensitivity_results[q]]
    /\ s_param' = s_param + 1
    /\ s_results' = <<>>
    /\ UNCHANGED <<s_pc, s_args, s_base_before, s_error, base_config>>

\* return sensitivity_results
sensitivity_return ==
    /\ s_pc = "running"
    /\ s_param > Len(s_args.parameters)
    /\ s_pc' = "returned"
    /\ UNCHANGED <<s_args, s_param, s_results, sensitivity_results, s_base_before,
                   s_error, base_config>>

\* the variables of the optimizer run_sensitivity_analysis never assigns
sens_frame == <<o_pc, o_data, o_schedule, o_call, cache, evaluation_count,
                o_nevals, o_evals, o_last, o_result, o_error, o_valid, o_methods>>

(***************************************************************************)
(* OptimizationEngine.efficient_frontier (models/optimization.py) for two  *)
(* assets with uncorrelated returns.  Expected returns and volatilities    *)
(* are in basis points, weights in percent, the volatility of a portfolio  *)
(* in 1/100 of a basis point.  Whether SLSQP converges on a feasible       *)
(* target is the library's affair: either outcome is possible; on a target *)
(* no portfolio within the bounds attains it does not converge.            *)
(***************************************************************************)
MaxFrontierPoints == 3

\* the weights of the minimum variance portfolio, each in [0, 1]
min_variance_weights(sigma) ==
    LET v1 == sigma[1] * sigma[1]
        v2 == sigma[2] * sigma[2]
        w1 == (v2 * 100) \div (v1 + v2)
    IN  <<w1, 100 - w1>>

\* np.dot(weights, expected_returns)
portfolio_return(weights, mu) == (weights[1] * mu[1] + weights[2] * mu[2]) \div 100

\* np.linspace(min_return, max_return * 0.95, num_points)
target_returns_of(mu, sigma, num_points) ==
    linspace(portfolio_return(min_variance_weights(sigma), mu),
             (Max2(mu[1], mu[2]) * 95) \div 100, num_points)

\* some weights within the bounds [0, 1] that sum to 1 attain the target
Attainable(mu, target) == Min2(mu[1], mu[2]) <= target /\ target <= Max2(mu[1], mu[2])

\* the converged solution for a target: the weights the two equality
\* constraints determine, the volatility and the Sharpe ratio
frontier_point(mu, sigma, target) ==
    LET w1 == (Abs(target - mu[2]) * 100) \div Abs(mu[1] - mu[2])
        w2 == 100 - w1
        volatility == ISqrt((w1 * sigma[1]) * (w1 * sigma[1])
                            + (w2 * sigma[2]) * (w2 * sigma[2]))
    IN  [weights |-> <<w1, w2>>,
         volatility |-> volatility,
         sharpe_ratio |-> IF volatility > 0 THEN FDiv(target * 100, volatility) ELSE 0]

FrontierArgs ==
    [expected_returns : {<<500, 2000>>, <<2000, 500>>, <<-300, -100>>},
     sigma : {<<100, 200>>, <<200, 200>>},
     num_points : 1..MaxFrontierPoints]

NoFrontierArgs == [expected_returns |-> <<0, 0>>, sigma |-> <<0, 0>>, num_points |-> 0]

NoFrontier == [returns |-> <<>>, volatilities |-> <<>>, weights |-> <<>>,
               sharpe_ratios |-> <<>>]

VARIABLES
    f_pc,                    \* "parked", "idle", "running", "returned"
    f_args,                  \* the arguments of efficient_frontier
    target_returns,          \* the grid of target returns
    f_idx,                   \* targets already processed
    frontier_volatilities,   \* the three lists the loop appends to
    frontier_weights,
    frontier_sharpe_ratios,
    f_converged,             \* history: the targets the solver converged on
    f_out                    \* the dictionary returned

fvars == <<f_pc, f_args, target_returns, f_idx, frontier_volatilities, frontier_weights,
           frontier_sharpe_ratios, f_converged, f_out>>

FrontierParked ==
    /\ f_pc = "parked"
    /\ f_args = NoFrontierArgs
    /\ target_returns = <<>>
    /\ f_idx = 0
    /\ frontier_volatilities = <<>>
    /\ frontier_weights = <<>>
    /\ frontier_sharpe_ratios = <<>>
    /\ f_converged = <<>>
    /\ f_out = NoFrontier

FrontierIdle ==
    /\ f_pc = "idle"
    /\ f_args = NoFrontierArgs
    /\ target_returns = <<>>
    /\ f_idx = 0
    /\ frontier_volatilities = <<>>
    /\ frontier_weights = <<>>
    /\ frontier_sharpe_ratios = <<>>
    /\ f_converged = <<>>
    /\ f_out = NoFrontier

\* efficient_frontier up to the loop over the targets
efficient_frontier_begin(args) ==
    /\ f_pc = "idle"
    /\ f_pc' = "running"
    /\ f_args' = args
    /\ target_returns' = target_returns_of(args.expected_returns, args.sigma,
                                           args.num_points)
    /\ f_idx' = 0
    /\ frontier_volatilities' = <<>>
    /\ frontier_weights' = <<>>
    /\ frontier_sharpe_ratios' = <<>>
    /\ f_converged' = <<>>
    /\ f_out' = NoFrontier

\* one iteration of the loop: minimize(...) for the next target, appended
\* to the three lists when result.success and skipped otherwise
efficient_frontier_solve(success) ==
    /\ f_pc = "running"
    /\ f_idx < Len(target_returns)
    /\ LET target_return == target_returns[f_idx + 1]
           point == frontier_point(f_args.expected_returns, f_args.sigma, target_return)
       IN  /\ success => Attainable(f_args.expected_returns, target_return)
           /\ IF success
              THEN /\ frontier_volatilities' = Append(frontier_volatilities, point.volatility)
                   /\ frontier_weights' = Append(frontier_weights, point.weights)
                   /\ frontier_sharpe_ratios' =
                          Append(frontier_sharpe_ratios, point.sharpe_ratio)
                   /\ f_converged' = Append(f_converged, target_return)
              ELSE UNCHANGED <<frontier_volatilities, frontier_weights,
                               frontier_sharpe_ratios, f_converged>>
    /\ f_idx' = f_idx + 1
    /\ UNCHANGED <<f_pc, f_args, target_returns, f_out>>

\* the dictionary returned after the loop
efficient_frontier_return ==
    /\ f_pc = "running"
    /\ f_idx = Len(target_returns)
    /\ f_pc' = "returned"
    /\ f_out' = [returns |-> SubSeq(target_returns, 1, Len(frontier_volatilities)),
                 volatilities |-> frontier_volatilities,
                 weights |-> frontier_weights,
                 sharpe_ratios |-> frontier_sharpe_ratios]
    /\ UNCHANGED <<f_args, target_returns, f_idx, frontier_volatilities,
                   frontier_weights, frontier_sharpe_ratios, f_converged>>

(***************************************************************************)
(* CCYOEBacktester.run_stress_test: one temporary engine per scenario over *)
(* the scenario's transformed copy of self.data.  stress_results is the    *)
(* dictionary returned, keyed by scenario name.                            *)
(***************************************************************************)
MaxScenarios == 2

\* scenario.get('name', 'unnamed_scenario')
scenario_name_of(scenario) ==
    IF scenario.name = "None" THEN "unnamed_scenario" ELSE scenario.name

\* _apply_stress_scenario for the scenario types 'yield_shock' (the shock is
\* added to every observation of the assets named) and a type that matches no
\* branch (the copy is returned as it is)
apply_stress_scenario(rows, scenario) ==
    IF scenario.type = "yield_shock"
    THEN [i \in 1..Len(rows) |->
             [rows[i] EXCEPT !.y =
                 [a \in Assets |->
                     IF a \in DOMAIN scenario.shocks
                     THEN rows[i].y[a] + scenario.shocks[a]
                     ELSE rows[i].y[a]]]]
    ELSE rows

NoShocks == [a \in {} |-> 0]

\* the scenarios a caller may list: unnamed ones (name "None" for a missing
\* key) and named ones, shocking one asset
StressScenarios ==
    {[name |-> n, type |-> "yield_shock", shocks |-> s] :
        n \in {"None", "bear", "bull"},
        s \in {[a \in {"cmUSD"} |-> 100], [a \in {"cmBTC"} |-> -600]}}
    \cup {[name |-> "calm", type |-> "unknown", shocks |-> NoShocks]}

RECURSIVE ScenarioListsOfLen(_)
ScenarioListsOfLen(n) ==
    IF n = 0 THEN {<<>>}
    ELSE {Append(q, s) : q \in ScenarioListsOfLen(n - 1), s \in StressScenarios}

\* (start_date, end_date, stress_scenarios) of a run_stress_test call
StressArgs ==
    {[start |-> st, end |-> FirstDate + 100, scenarios |-> q] :
        st \in {FirstDate, FirstDate + 50},
        q \in UNION {ScenarioListsOfLen(n) : n \in 0..MaxScenarios}}

NoStressArgs == [start |-> 0, end |-> 0, scenarios |-> <<>>]

\* stress_results = {}
NoStressResults == [n \in {} |-> NoResults]

VARIABLES
    st_pc,           \* "parked", "idle", "running", "returned", "raised"
    st_args,         \* the arguments of the run_stress_test call
    st_idx,          \* scenarios of the list already processed
    stress_results,  \* the dictionary being built, scenario name -> results
    st_error         \* the exception raised, "none" if none

tvars == <<st_pc, st_args, st_idx, stress_results, st_error>>

StressParked ==
    /\ st_pc = "parked"
    /\ st_args = NoStressArgs
    /\ st_idx = 0
    /\ stress_results = NoStressResults
    /\ st_error = "none"

StressIdle ==
    /\ st_pc = "idle"
    /\ st_args = NoStressArgs
    /\ st_idx = 0
    /\ stress_results = NoStressResults
    /\ st_error = "none"

\* run_stress_test up to the loop over the scenarios
run_stress_test_begin(args) ==
    /\ st_pc = "idle"
    /\ st_pc' = "running"
    /\ st_args' = args
    /\ st_idx' = 0
    /\ stress_results' = NoStressResults
    /\ st_error' = "none"

\* one iteration of the loop: the scenario applied to a copy of self.data, a
\* temporary engine constructed over it with self.config, its run_backtest
\* (an exception leaves run_stress_test), the result stored under the name
stress_scenario ==
    /\ st_pc = "running"
    /\ st_idx < Len(st_args.scenarios)
    /\ LET scenario == st_args.scenarios[st_idx + 1]
           scenario_name == scenario_name_of(scenario)
       IN  \E out \in {run_backtest(apply_stress_scenario(data, scenario), config,
                                    st_args.start, st_args.end)} :
              IF out.raises # "none"
              THEN /\ st_pc' = "raised"
                   /\ st_error' = out.raises
                   /\ UNCHANGED <<st_idx, stress_results>>
              ELSE /\ stress_results' =
                          [n \in (DOMAIN stress_results) \cup {scenario_name} |->
                              IF n = scenario_name THEN out.results
                              ELSE stress_results[n]]
                   /\ st_idx' = st_idx + 1
                   /\ UNCHANGED <<st_pc, st_error>>
    /\ UNCHANGED st_args

\* the end of the loop: return stress_results
run_stress_test_return ==
    /\ st_pc = "running"
    /\ st_idx = Len(st_args.scenarios)
    /\ st_pc' = "returned"
    /\ UNCHANGED <<st_args, st_idx, stress_results, st_error>>

vars == <<simvars, mvars, cvars, ovars, svars, fvars, tvars>>

SimParked == data = <<>> /\ config = NoConfig /\ calls_left = 0 /\ SimIdle

\* the simulation engine and the metrics library
Init ==
    /\ \/ SimInit /\ MetricsParked
       \/ SimParked /\ MetricsInit
    /\ CtorParked
    /\ OptParked
    /\ SensParked
    /\ FrontierParked
    /\ StressParked

Next ==
    \/ \E c \in Calls : run_backtest_begin(c) /\ UNCHANGED <<mvars, cvars, ovars, svars, fvars, tvars>>
    \/ simulate_period /\ UNCHANGED <<mvars, cvars, ovars, svars, fvars, tvars>>
    \/ finish_backtest /\ UNCHANGED <<mvars, cvars, ovars, svars, fvars, tvars>>
    \/ analyze_run_returns /\ UNCHANGED <<simvars, cvars, ovars, svars, fvars, tvars>>
    \/ compute_metrics /\ UNCHANGED <<simvars, cvars, ovars, svars, fvars, tvars>>

Spec == Init /\ [][Next]_vars

\* the construction of OptimizationConfig
InitCfg ==
    SimParked /\ MetricsParked /\ CtorInit /\ OptParked /\ SensParked /\ FrontierParked
    /\ StressParked

NextCfg == CtorNext /\ UNCHANGED <<simvars, mvars, ovars, svars, fvars, tvars>>

SpecCfg == InitCfg /\ [][NextCfg]_vars

\* several run_backtest calls on one engine, over three observations
InitRuns ==
    /\ data \in SeriesOfLen(3)
    /\ config \in SimConfigs
    /\ calls_left = MaxCalls
    /\ SimIdle
    /\ MetricsParked /\ CtorParked /\ OptParked /\ SensParked /\ FrontierParked
    /\ StressParked

NextRuns ==
    \/ \E c \in Calls : run_backtest_begin(c) /\ UNCHANGED <<mvars, cvars, ovars, svars, fvars, tvars>>
    \/ simulate_period /\ UNCHANGED <<mvars, cvars, ovars, svars, fvars, tvars>>
    \/ finish_backtest /\ UNCHANGED <<mvars, cvars, ovars, svars, fvars, tvars>>

SpecRuns == InitRuns /\ [][NextRuns]_vars

\* the optimizer
InitOpt ==
    SimParked /\ MetricsParked /\ CtorParked /\ OptInit /\ SensParked /\ FrontierParked
    /\ StressParked

NextOpt ==
    \/ optimize_begin /\ UNCHANGED <<simvars, mvars, cvars, svars, fvars, tvars>>
    \/ \E x \in CandidateVectors : evaluate(x) /\ UNCHANGED <<simvars, mvars, cvars, svars, fvars, tvars>>
    \/ \E e \in o_evals, success \in BOOLEAN :
           search_returns(e, success) /\ UNCHANGED <<simvars, mvars, cvars, svars, fvars, tvars>>
    \/ validate_optimization_results /\ UNCHANGED <<simvars, mvars, cvars, svars, fvars, tvars>>

SpecOpt == InitOpt /\ [][NextOpt]_vars

\* the sensitivity analysis of a freshly constructed optimizer
InitSens ==
    /\ SimParked /\ MetricsParked /\ CtorParked
    /\ o_pc = "idle"
    /\ o_data \in OptData
    /\ base_config \in BaseConfigs
    /\ o_schedule = <<>>
    /\ o_call = NoOptCall
    /\ cache = {}
    /\ evaluation_count = 0
    /\ o_nevals = 0
    /\ o_evals = {}
    /\ o_last = NoEval
    /\ o_result = NoOptResult
    /\ o_error = "none"
    /\ o_valid = "unchecked"
    /\ o_methods = <<>>
    /\ SensIdle
    /\ FrontierParked
    /\ StressParked

NextSens ==
    \/ \E args \in SensArgs :
           sensitivity_begin(args) /\ UNCHANGED <<simvars, mvars, cvars, sens_frame, fvars, tvars>>
    \/ sensitivity_point /\ UNCHANGED <<simvars, mvars, cvars, sens_frame, fvars, tvars>>
    \/ sensitivity_next_param /\ UNCHANGED <<simvars, mvars, cvars, sens_frame, fvars, tvars>>
    \/ sensitivity_return /\ UNCHANGED <<simvars, mvars, cvars, sens_frame, fvars, tvars>>

SpecSens == InitSens /\ [][NextSens]_vars

\* the efficient frontier
InitFrontier ==
    /\ SimParked /\ MetricsParked /\ CtorParked /\ OptParked /\ SensParked
    /\ FrontierIdle
    /\ StressParked

NextFrontier ==
    \/ \E args \in FrontierArgs :
           efficient_frontier_begin(args) /\ UNCHANGED <<simvars, mvars, cvars, ovars, svars, tvars>>
    \/ \E success \in BOOLEAN :
           efficient_frontier_solve(success)
               /\ UNCHANGED <<simvars, mvars, cvars, ovars, svars, tvars>>
    \/ efficient_frontier_return /\ UNCHANGED <<simvars, mvars, cvars, ovars, svars, tvars>>

SpecFrontier == InitFrontier /\ [][NextFrontier]_vars

\* run_stress_test on an idle engine over two observations
InitStress ==
    /\ data \in SeriesOfLen(2)
    /\ config \in {DefaultConfig,
                   ConfigFields(W(25), W(45), W(25), W(5), 100, 1, TinySupplyCaps, 50)}
    /\ calls_left = 0
    /\ SimIdle
    /\ MetricsParked /\ CtorParked /\ OptParked /\ SensParked /\ FrontierParked
    /\ StressIdle

NextStress ==
    \/ \E args \in StressArgs :
           run_stress_test_begin(args)
               /\ UNCHANGED <<simvars, mvars, cvars, ovars, svars, fvars>>
    \/ stress_scenario /\ UNCHANGED <<simvars, mvars, cvars, ovars, svars, fvars>>
    \/ run_stress_test_return /\ UNCHANGED <<simvars, mvars, cvars, ovars, svars, fvars>>

SpecStress == InitStress /\ [][NextStress]_vars

(***************************************************************************)
(* Properties of the simulation engine.                                    *)
(***************************************************************************)
CalendarDay(t) == t \div TicksPerDay

DatedEvents == SelectSeq(rebalance_events, LAMBDA e: e.has_fields)

SimStarted == pc \in {"simulating", "returned"} \/ (pc = "raised" /\ error # "ValueError")

RunComplete == SimStarted /\ idx = Len(backtest_data)

\* the aggregate excess of one observation: sum of max(0, yield - target)
RowTotalExcess(row) ==
    LET ex(a) == IF row.y[a] > config.target_yields[a]
                 THEN row.y[a] - config.target_yields[a] ELSE 0
    IN  ex("cmBTC") + ex("cmUSD") + ex("cmBRL")

\* C1: any two consecutive rebalance events of a run are dated at least
\* min_rebalance_interval calendar days apart.
C1_MinIntervalBetweenRebalances ==
    /\ \A i \in 1..(Len(DatedEvents) - 1) :
           CalendarDay(DatedEvents[i + 1].date) - CalendarDay(DatedEvents[i].date)
               >= config.min_rebalance_interval
    /\ \A i \in 1..(Len(trigger_dates) - 1) :
           CalendarDay(trigger_dates[i + 1]) - CalendarDay(trigger_dates[i])
               >= config.min_rebalance_interval

\* a finished run with two dated events under an interval of at least a day,
\* in which a period that met the threshold was blocked by the interval
C1_Witness ==
    /\ pc = "returned"
    /\ config.min_rebalance_interval >= 1
    /\ Len(DatedEvents) >= 2
    /\ \E i \in 1..Len(backtest_data) :
           /\ RowTotalExcess(backtest_data[i]) >= config.rebalance_threshold
           /\ \A k \in 1..Len(trigger_dates) : trigger_dates[k] # backtest_data[i].date

\* C2: for every rebalance event under weights summing to 1, the per-asset
\* redistribution amounts plus the treasury amount add up to total_excess
\* (to within the rounding of the four divisions).
C2_RedistributionConservesExcess ==
    total_allocation(config) = WeightScale =>
        \A i \in 1..Len(DatedEvents) :
            Abs(SumAssets(DatedEvents[i].redistribution)
                + treasury_amount_of(config, DatedEvents[i].total_excess_yield)
                - DatedEvents[i].total_excess_yield * AmountScale) <= 4

TriggersBefore(d) == {trigger_dates[k] : k \in 1..Len(trigger_dates)} \cap 0..(d - 1)

SetMax(S) == CHOOSE x \in S : \A y \in S : y <= x

\* the series is at target everywhere except period k, the one period whose
\* excess reaches the threshold
OneShockAt(k) ==
    /\ k \in 1..Len(backtest_data)
    /\ RowTotalExcess(backtest_data[k]) > 0
    /\ RowTotalExcess(backtest_data[k]) >= config.rebalance_threshold
    /\ \A j \in 1..Len(backtest_data) :
           j # k => /\ \A a \in Assets : backtest_data[j].y[a] = config.target_yields[a]
                    /\ RowTotalExcess(backtest_data[j]) < config.rebalance_threshold

\* C3: an event is recorded for period t iff the aggregate excess reaches the
\* threshold and no rebalance happened earlier in the run or the last one is
\* at least min_rebalance_interval days back; a series at target except for
\* the one period whose excess reaches the threshold gives exactly one event,
\* dated that period.
C3_RebalanceFiresIff ==
    SimStarted =>
        /\ \A i \in 1..idx :
               LET d == backtest_data[i].date
                   prior == TriggersBefore(d)
               IN  (\E k \in 1..Len(trigger_dates) : trigger_dates[k] = d)
                   <=> /\ RowTotalExcess(backtest_data[i]) >= config.rebalance_threshold
                       /\ \/ prior = {}
                          \/ d - SetMax(prior)
                                 >= config.min_rebalance_interval * TicksPerDay
        /\ Len(trigger_dates) = Len(rebalance_events)
        /\ \A k \in 1..Len(backtest_data) :
               (RunComplete /\ OneShockAt(k)) =>
                   /\ Len(rebalance_events) = 1
                   /\ rebalance_events[1].has_fields
                   /\ rebalance_events[1].date = backtest_data[k].date

\* a finished run over three periods, the middle one shocked to exactly the
\* threshold, the others at target
C3_Witness ==
    /\ pc = "returned"
    /\ Len(backtest_data) = 3
    /\ config.rebalance_threshold > 0
    /\ OneShockAt(2)
    /\ RowTotalExcess(backtest_data[2]) = config.rebalance_threshold
    /\ Len(rebalance_events) = 1

AllAtTarget ==
    \A i \in 1..Len(backtest_data) :
        \A a \in Assets : backtest_data[i].y[a] = config.target_yields[a]

\* a balance after n periods of balance * (1 + yield_bp / 10000 / 365)
RECURSIVE FlatCompounded(_, _, _)
FlatCompounded(b, y, n) ==
    IF n = 0 THEN b
    ELSE LET p == FlatCompounded(b, y, n - 1) IN p + MulDiv(p, y, 3650000)

FlatValue(n) ==
    LET f(a) == FlatCompounded(initial_portfolio_of(call)[a], config.target_yields[a], n)
    IN  f("cmBTC") + f("cmUSD") + f("cmBRL")

\* C4: with every yield at target and a positive threshold the run records no
\* rebalance event, every balance changes only by the per-period compounding
\* step, and the total return is that of the compounded flat yield.
C4_FlatSeriesOnlyCompounds ==
    (SimStarted /\ AllAtTarget /\ config.rebalance_threshold > 0) =>
        /\ rebalance_events = <<>>
        /\ \A a \in Assets :
               /\ current_portfolio[a] =
                      FlatCompounded(initial_portfolio_of(call)[a],
                                     config.target_yields[a], idx)
               /\ \A i \in 1..Len(daily_values) :
                      daily_values[i].values[a] =
                          FlatCompounded(initial_portfolio_of(call)[a],
                                         config.target_yields[a], i - 1)
        /\ pc = "returned" =>
               /\ results.total_rebalances = 0
               /\ Abs(results.total_return
                      - PctChange(FlatValue(0), FlatValue(Len(daily_values) - 1)))
                      <= Len(daily_values)

\* a finished run over three periods at target under a positive threshold
C4_Witness ==
    /\ pc = "returned"
    /\ AllAtTarget
    /\ config.rebalance_threshold > 0
    /\ Len(daily_values) = 3
    /\ results.total_return > 0

\* C6: max_drawdown of the returned BacktestResults lies in [0, 1].
C6_MaxDrawdownInUnitInterval ==
    pc = "returned" => (results.max_drawdown >= 0 /\ results.max_drawdown <= RetScale)

\* C7: Sharpe is exactly 0 when volatility is 0 and Calmar is exactly 0 when
\* max drawdown is 0, in the results of run_backtest and in the metrics
\* library, and both are then finite.
C7_ZeroDenominatorRatios ==
    /\ pc = "returned" =>
           /\ results.volatility = 0 => results.sharpe_ratio = 0
           /\ results.max_drawdown = 0 => results.calmar_ratio = 0
    /\ m_pc = "computed" =>
           /\ m_out.volatility = 0 => m_out.sharpe_ratio = 0
           /\ m_out.max_drawdown = 0 => m_out.calmar_ratio = 0

\* a finished run over three periods of zero yield (the value never moves:
\* zero volatility, zero drawdown) whose return series was also handed to
\* the metrics library
C7_Witness ==
    /\ pc = "returned"
    /\ m_pc = "computed"
    /\ m_returns = <<0, 0>>
    /\ results.volatility = 0
    /\ results.max_drawdown = 0
    /\ results.sharpe_ratio = 0
    /\ results.calmar_ratio = 0
    /\ m_out.volatility = 0
    /\ m_out.max_drawdown = 0

\* no row of self.data is dated within [start, end]
NoObservationIn(start, end) ==
    \A i \in 1..Len(data) : ~(start <= data[i].date /\ data[i].date <= end)

\* C14: run_backtest over a date range that contains no observation raises
\* the empty-range error (ValueError) before any simulation step is taken and
\* returns no result.
C14_EmptyRangeFails ==
    (pc # "idle" /\ NoObservationIn(call.start, call.end)) =>
        /\ pc = "raised"
        /\ error = "ValueError"
        /\ idx = 0
        /\ daily_values = <<>>
        /\ rebalance_events = <<>>
        /\ results = NoResults

C14_Witness ==
    /\ pc = "raised"
    /\ error = "ValueError"
    /\ Len(data) = MaxPeriods
    /\ NoObservationIn(call.start, call.end)
    /\ \E i \in 1..Len(data) : data[i].date < call.start

\* a run that has just entered _run_simulation holds no state of an earlier one
FreshRunState ==
    (pc = "simulating" /\ idx = 0) =>
        /\ last_rebalance_date = NoDate
        /\ rebalance_events = <<>>
        /\ daily_values = <<>>
        /\ current_portfolio = initial_portfolio_of(call)

\* the run just completed had the same arguments as the completed run before it
RepeatedRun ==
    /\ pc = "returned"
    /\ previous_run.pc = "returned"
    /\ previous_run.call = call

\* C17: every run_backtest call starts from fresh run state, whatever ran
\* before on the same engine; the caller's initial_portfolio mapping, the
\* config and the engine's data are never changed by a run; and two runs with
\* the same arguments produce the same event log and value series.
C17_RunsShareNoState ==
    /\ [](/\ FreshRunState
          /\ caller_portfolio = SmallPortfolio
          /\ RepeatedRun => /\ rebalance_events = previous_run.rebalance_events
                            /\ daily_values = previous_run.daily_values)
    /\ [][data' = data /\ config' = config]_vars

C17_Witness ==
    /\ RepeatedRun
    /\ call.initial_portfolio = "small"
    /\ Len(rebalance_events) > 0
    /\ current_portfolio # SmallPortfolio

\* C18: the value appended to the daily value series for a period is the sum
\* of the balances after that period's compounding has been applied.
C18_ValueAppendedAfterCompounding ==
    (pc = "simulating" /\ idx >= 1) =>
        daily_values[idx].portfolio_value = SumAssets(current_portfolio)

\* balance / supply_cap > 0.8, both in millions of USD
UtilizationAbove80(balance, cap) == balance > 4 * (cap \div 5)

\* the assets eligible for the strategic growth bucket at balances portfolio
EligibleAssets(portfolio) ==
    {a \in Assets : UtilizationAbove80(portfolio[a], config.supply_caps[a])}

\* simulate_period rebalances: an event with fields is appended
Rebalances ==
    /\ pc = "simulating"
    /\ Len(rebalance_events') = Len(rebalance_events) + 1
    /\ rebalance_events'[Len(rebalance_events')].has_fields

\* C19: at a rebalance every asset whose pre-rebalance balance exceeds 0.8 of
\* its supply cap is eligible for the strategic growth bucket, and the k >= 1
\* eligible assets receive bucket / k each (the others nothing).
C19_StrategicBucketSplitAmongEligible ==
    [][Rebalances =>
        LET ev == rebalance_events'[Len(rebalance_events')]
            bucket == BucketAmount(ev.total_excess_yield, config.strategic_growth_allocation)
            k == Cardinality(EligibleAssets(current_portfolio))
        IN  \A a \in Assets :
               ev.redistribution[a]
                   - under_supplied_share(config, a, ev.total_excess_yield)
                   - proportional_share(config, current_portfolio, a, ev.total_excess_yield)
               = IF a \in EligibleAssets(current_portfolio) THEN bucket \div k ELSE 0]_vars

(***************************************************************************)
(* Properties of the construction of OptimizationConfig.                   *)
(***************************************************************************)
CtorSum == ctor_args.weights[1] + ctor_args.weights[2]
               + ctor_args.weights[3] + ctor_args.weights[4]

CtorDone == ctor_pc \in {"constructed", "raised"}

\* C5 as stated: construction fails when the four weights do not sum to 1.0
\* (read with the tolerance of 1e-6 the validity of a config is stated with)
\* and succeeds when they sum to 1.0.
C5_RejectsSumNotOne ==
    CtorDone =>
        /\ Abs(CtorSum - WeightScale) > WeightScale \div 1000000 => ctor_pc = "raised"
        /\ CtorSum = WeightScale => ctor_pc = "constructed"

\* C5: construction fails with an error and yields no config object exactly
\* when the sum of the four weights differs from 1.0 by more than the
\* tolerance of np.isclose (1e-8 + 1e-5 * 1.0); otherwise it succeeds and the
\* object carries the weights passed.
C5_RejectsSumNotCloseToOne ==
    CtorDone =>
        /\ ctor_pc = "raised" <=>
               Abs(CtorSum - WeightScale)
                   > (WeightScale \div 100000000) + (WeightScale \div 100000)
        /\ ctor_pc = "raised" => ctor_config = NoConfig
        /\ ctor_pc = "constructed" =>
               /\ ctor_config.under_supplied_allocation = ctor_args.weights[1]
               /\ ctor_config.strategic_growth_allocation = ctor_args.weights[2]
               /\ ctor_config.proportional_allocation = ctor_args.weights[3]
               /\ ctor_config.treasury_allocation = ctor_args.weights[4]

\* a config accepted although its weights sum to 1.000005
C5_Witness ==
    /\ ctor_pc = "constructed"
    /\ CtorSum = WeightScale + 5000
    /\ total_allocation(ctor_config) = CtorSum

(***************************************************************************)
(* Properties of the optimizer.                                            *)
(***************************************************************************)
WeightSum(params) == params[1] + params[2] + params[3] + params[4]

\* C8: the optimal_params of a returned OptimizationResult have weights that
\* sum to 1.0 within tolerance (0.01, the tolerance of the test) and every
\* parameter within its bounds, whatever the search strategy.
C8_OptimalParamsValid ==
    o_pc = "returned" =>
        /\ Abs(WeightSum(o_result.optimal_params) - WeightScale) <= WeightScale \div 100
        /\ WithinBoundsOf(o_result.optimal_params, setup_bounds_override(o_call.bounds))

\* the call of the objective function at x fails: the engine cannot be
\* constructed over the data or the backtest raises
FailsAt(x) ==
    \/ ~o_data.parsable
    \/ run_backtest(o_data.rows, params_to_config(base_config, x),
                    o_call.start, o_call.end).raises # "none"

\* C9: a call of the objective function never raises, and returns +infinity
\* whenever constructing the engine or running the backtest fails.
C9_FailuresGiveInfinity ==
    o_last # NoEval =>
        /\ o_last.raises = "none"
        /\ (~o_last.hit /\ FailsAt(o_last.x)) => o_last.value = FInf

\* C10: a cached value is returned only for the vector it was computed for,
\* and a vector already evaluated successfully is not simulated again.
C10_CacheKeyedByExactVector ==
    o_last # NoEval =>
        /\ o_last.hit => o_last.entry.params = o_last.x
        /\ o_last.known => (o_last.hit /\ ~o_last.simulated)

\* C11: when no evaluation of the search produced a finite objective value,
\* the call of optimize_distribution_weights ends with an exception and
\* returns no result, whatever the strategy.
C11_TotalFailureIsFatal ==
    (o_pc = "returned" /\ o_evals # {}) => \E e \in o_evals : IsFinite(e.value)

\* the config fields _params_to_config does not assign
UnmappedFields == {"min_rebalance_interval", "max_rebalance_frequency",
                   "target_yields", "supply_caps", "gas_cost_usd"}

\* the config _params_to_config starts from
BaseOrDefault == IF base_config.given THEN base_config.config ELSE DefaultConfig

\* C12: the config built from a parameter vector maps back to that vector
\* exactly in all six elements, and its other fields equal those of the base
\* config.
C12_ParamsConfigRoundTrip ==
    o_last # NoEval =>
        /\ config_to_params(o_last.config) = o_last.x
        /\ \A f \in UnmappedFields : o_last.config[f] = BaseOrDefault[f]

C12_Witness ==
    /\ o_last # NoEval
    /\ base_config.given
    /\ o_last.x[5] # o_last.x[6]
    /\ o_last.x # config_to_params(base_config.config)
    /\ o_last.config.supply_caps = TinySupplyCaps
    /\ config_to_params(o_last.config) = o_last.x

(***************************************************************************)
(* Properties of the sensitivity analysis.                                 *)
(***************************************************************************)
ConfigFieldNames == DOMAIN DefaultConfig

\* the parameters requested that have a range
SweptParameters ==
    {s_args.parameters[i] : i \in 1..Len(s_args.parameters)} \cap DOMAIN s_args.ranges

\* row i of the table of p lies on the grid of n_points evenly spaced values
\* from the minimum to the maximum of the range of p
OnGrid(p, i, value) ==
    LET lo == s_args.ranges[p][1]
        hi == s_args.ranges[p][2]
        n  == s_args.n_points
    IN  /\ (n - 1) * (value - lo) = (i - 1) * (hi - lo)
        /\ i = 1 => value = lo
        /\ (i = n /\ n > 1) => value = hi

\* C13: run_sensitivity_analysis returns one table for each requested
\* parameter that has a range, of exactly n_points rows whose parameter_value
\* column is the evenly spaced grid in order; the config of each row's run
\* equals the base config except in the swept parameter, and the base config
\* of the optimizer is unchanged.
C13_SensitivityTables ==
    s_pc = "returned" =>
        /\ DOMAIN sensitivity_results = SweptParameters
        /\ \A p \in SweptParameters :
              /\ Len(sensitivity_results[p]) = s_args.n_points
              /\ \A i \in 1..Len(sensitivity_results[p]) :
                    LET row == sensitivity_results[p][i] IN
                    /\ OnGrid(p, i, row.parameter_value)
                    /\ row.config[p] = row.parameter_value
                    /\ \A f \in ConfigFieldNames \ {p} :
                          row.config[f] = s_base_before.config[f]
        /\ base_config = s_base_before

C13_Witness ==
    /\ s_pc = "returned"
    /\ s_args.n_points = MaxPoints
    /\ Cardinality(SweptParameters) = 2
    /\ \A p \in SweptParameters :
          /\ Len(sensitivity_results[p]) = MaxPoints
          /\ sensitivity_results[p][2].parameter_value # s_base_before.config[p]

\* C15: validate_optimization_results returns true exactly when the weights
\* of the result sum to 1.0 within tolerance and every parameter lies within
\* the bounds configured for the optimization that produced it, the caller's
\* overrides included.
C15_ValidIffWithinConfiguredBounds ==
    o_valid # "unchecked" =>
        (o_valid = "valid" <=>
            /\ Abs(WeightSum(o_result.optimal_params) - WeightScale) <= WeightScale \div 1000000
            /\ WithinBoundsOf(o_result.optimal_params, setup_bounds_override(o_call.bounds)))

\* C16: efficient_frontier keeps exactly one point per target the solver
\* converged on, and at every index of the returned arrays the return is the
\* target for which the volatility, the weights and the Sharpe ratio at that
\* index were solved.
C16_FrontierPointsAligned ==
    f_pc = "returned" =>
        /\ Len(f_out.volatilities) = Len(f_converged)
        /\ Len(f_out.weights) = Len(f_converged)
        /\ Len(f_out.sharpe_ratios) = Len(f_converged)
        /\ f_out.returns = f_converged

\* the named objective's value at the vector x: the BacktestResults field of
\* a backtest of the config x maps to; FNaN when there is none
ObjectiveValueAt(x) ==
    CHOOSE v \in
        { IF bt.raises = "none" /\ o_call.objective \in ResultAttributes
          THEN getattr_results(bt.results, o_call.objective) ELSE FNaN :
          bt \in {run_backtest(o_data.rows, params_to_config(base_config, x),
                               o_call.start, o_call.end)} } : TRUE

\* C20: the optimal_value of a returned OptimizationResult is the named
\* objective's actual value at optimal_params, for maximized and for
\* minimized objectives alike.
C20_OptimalValueIsObjectiveValue ==
    (o_pc = "returned" /\ o_data.parsable) =>
        \A v \in {ObjectiveValueAt(o_result.optimal_params)} :
            v # FNaN => o_result.optimal_value = v

\* the period about to be processed fires the trigger although its aggregate
\* excess is not positive
FiresWithoutExcess ==
    /\ pc = "simulating"
    /\ idx < Len(backtest_data)
    /\ RowTotalExcess(backtest_data[idx + 1]) <= 0
    /\ check_rebalance_conditions(config, backtest_data[idx + 1].y,
                                  last_rebalance_date, backtest_data[idx + 1].date).needed

\* C21: a period whose trigger fires while total_excess <= 0 is a no-op: the
\* balances change only by the compounding step, no event is added to the
\* event log, and last_rebalance_date is left as it was.
C21_NoOpWithoutExcess ==
    [][(FiresWithoutExcess /\ idx' = idx + 1) =>
          /\ rebalance_events' = rebalance_events
          /\ last_rebalance_date' = last_rebalance_date
          /\ \A a \in Assets :
                 current_portfolio'[a] =
                     compound(current_portfolio[a], backtest_data[idx + 1].y[a])]_vars

\* C22: a call with method 'scipy' runs both SLSQP and L-BFGS-B from the same
\* starting point (and returns the result with the lower objective value).
C22_ScipyRunsBothMethods ==
    (o_call.method = "scipy" /\ o_pc = "returned") =>
        o_methods = <<"SLSQP", "L-BFGS-B">>

\* C23: constructing a config with an allocation weight outside [0, 1], a
\* rebalance threshold <= 0 or a minimum rebalance interval < 0 fails; such a
\* config is never accepted.
C23_RejectsOutOfRangeFields ==
    (/\ CtorDone
     /\ \/ \E i \in 1..4 : ctor_args.weights[i] < 0 \/ ctor_args.weights[i] > WeightScale
        \/ ctor_args.rebalance_threshold <= 0
        \/ ctor_args.min_rebalance_interval < 0)
        => ctor_pc = "raised"

\* balance * amount / 10000, the amount in 1/AmountScale of a basis point
BoostOf(balance, amount) == MulDiv(balance, amount, 1000 * AmountScale) \div 10

\* increase * transaction_cost / 10000, the cost in basis points
CostOf(increase) == MulDiv(increase, config.transaction_cost, 10000)

\* the balances after the rebalance of the period just processed, as the
\* daily value row records them (before compounding)
RebalancedBalances == daily_values'[Len(daily_values')].values

C25_WeeklyRebalanceLimit ==
    \A i \in 1..Len(DatedEvents) :
        Cardinality({j \in 1..Len(DatedEvents) :
                        /\ CalendarDay(DatedEvents[j].date) >= CalendarDay(DatedEvents[i].date)
                        /\ CalendarDay(DatedEvents[j].date) < CalendarDay(DatedEvents[i].date) + 7})
            <= config.max_rebalance_frequency

\* C26: every config a simulation run is executed with has allocation weights
\* summing to 1.0 (within the tolerance of the constructor): a candidate
\* vector whose weights do not is rejected instead of being simulated.
C26_SimulatedConfigsSumToOne ==
    (o_last.simulated /\ IsFinite(o_last.value)) =>
        np_isclose(total_allocation(o_last.config), WeightScale)

\* C27: a value the objective function returns from the cache was computed
\* for the objective and the date range of the call in progress.
C27_CacheHitsAreOfCurrentCall ==
    (o_pc \in {"searching", "returned"} /\ o_last.hit) =>
        /\ o_last.entry.objective = o_call.objective
        /\ o_last.entry.start = o_call.start
        /\ o_last.entry.end = o_call.end

\* C28: the only way run_backtest fails is the empty-range error: a call over
\* a range that holds an observation returns a BacktestResults.
C28_OnlyEmptyRangeFails ==
    pc = "raised" =>
        /\ error = "ValueError"
        /\ NoObservationIn(call.start, call.end)

\* the event log of the run: every entry dated, at an observation within the
\* requested range, in strictly increasing date order, one entry per period
\* at which the trigger fired
EventLogOrdered ==
    /\ \A i \in 1..Len(rebalance_events) :
           /\ rebalance_events[i].has_fields
           /\ rebalance_events[i].date >= call.start
           /\ rebalance_events[i].date <= call.end
           /\ \E k \in 1..idx : backtest_data[k].date = rebalance_events[i].date
    /\ \A i \in 1..(Len(rebalance_events) - 1) :
           rebalance_events[i].has_fields /\ rebalance_events[i + 1].has_fields
               => rebalance_events[i].date < rebalance_events[i + 1].date
    /\ Len(rebalance_events) = Len(trigger_dates)
    /\ Len(rebalance_events) <= idx
    /\ pc = "returned" =>
           /\ results.total_rebalances = Len(trigger_dates)
           /\ results.total_rebalances <= Len(backtest_data)

\* C29: the rebalance events of a run are logged in strictly increasing date
\* order, each dated at a period inside the requested date range and never
\* changed after being appended; total_rebalances is the number of periods at
\* which the trigger fired and at most the number of periods of the run.
C29_EventLogOrderedAndImmutable ==
    /\ [](SimStarted => EventLogOrdered)
    /\ [][pc = "simulating" =>
              SubSeq(rebalance_events', 1, Len(rebalance_events)) = rebalance_events]_vars

(***************************************************************************)
(* Properties of the stress test.                                          *)
(***************************************************************************)
\* C30: run_stress_test given N scenarios returns N results, one per scenario
\* of the list, each the result of a run over that scenario's transformed
\* series.
C30_OneResultPerScenario ==
    st_pc = "returned" =>
        /\ Cardinality(DOMAIN stress_results) = Len(st_args.scenarios)
        /\ \A i \in 1..Len(st_args.scenarios) :
               LET scenario == st_args.scenarios[i] IN
               /\ scenario_name_of(scenario) \in DOMAIN stress_results
               /\ stress_results[scenario_name_of(scenario)] =
                      run_backtest(apply_stress_scenario(data, scenario), config,
                                   st_args.start, st_args.end).results

====
